---- MODULE Spec2Model ----
(***************************************************************************)
(* Model of the Ledger hardware-wallet keystore adapter                    *)
(* (plugins/ledger/ledger.py): Ledger_Client preflight,                    *)
(* Ledger_KeyStore.sign_transaction and Ledger_KeyStore.sign_message, as a *)
(* step machine whose steps are the stretches of code between two calls to *)
(* the device or to the handler.  Every call to the device (btchip dongle) *)
(* and to the GUI handler is appended to the variable log, in program      *)
(* order.  Spec runs sign_transaction, SpecMessage runs sign_message,      *)
(* SpecKeystore runs the three decorated methods of the keystore in turn,  *)
(* SpecCapabilities the capability flags of a client for every firmware    *)
(* version, SpecConcurrent two threads calling into one keystore and       *)
(* device, SpecTaskThread the TaskThread of gui/qt/util.py with its        *)
(* parent (SpecTaskThreadFair: with a worker and an event loop that keep   *)
(* running), and SpecUpdateCheck the UpdateCheckThread of the same file.   *)
(***************************************************************************)
EXTENDS Integers, Sequences, FiniteSets, TLC

\* ---------------------------------------------------------------- bounds
\* Largest number of inputs of a transaction handed to sign_transaction.
MaxInputs == 2
\* Largest number of outputs of such a transaction.
MaxOutputs == 2
\* Largest part of a firmware version a connected device reports.
MaxVersionPart == 9
\* Largest number of tasks added to a TaskThread.
MaxTasks == 2
\* Largest number of signatures of a version announcement.
MaxSignatures == 2

\* ------------------------------------------------------ program constants
\* BITCOIN_CASH_SUPPORT and CASHADDR_SUPPORT, ledger.py:33-34.
BITCOIN_CASH_SUPPORT == <<1, 1, 8>>
CASHADDR_SUPPORT == <<1, 2, 5>>

\* Status words of BTChipException the code tests for.
SW_CANCELLED == 27013      \* 0x6985, ledger.py:438
SW_LOCKED == 27010         \* 0x6982, ledger.py:124
SW_NOT_SUPPORTED == 27904  \* 0x6d00, ledger.py:115
SW_TECHNICAL == 28416      \* 0x6f00, ledger.py:184
SW_INVALID_DATA == 27264   \* 0x6a80, ledger.py:290

\* The byte sign_transaction forces at the head of a device signature.
DER_SEQUENCE == 48         \* 0x30, ledger.py:431

\* None of Python where a string is expected, and an empty signature slot
\* (txin['signatures'][i] is None).
None == "None"
NoSig == <<>>

\* ------------------------------------------------------------ the wallet
\* get_tx_derivations(tx): the keystore's own extended public keys, each with
\* its (change, index) pair. "xf" is a cosigner's or a foreign key.
derivations == [x \in {"xa", "xb"} |-> IF x = "xa" THEN <<0, 1>> ELSE <<1, 0>>]

\* ------------------------------------------------------------ byte strings
RECURSIVE Repeat(_, _)
Repeat(b, n) == IF n = 0 THEN <<>> ELSE <<b>> \o Repeat(b, n - 1)

\* A DER integer of len bytes whose value bytes are b: 33 bytes means a zero
\* pad in front of a value whose top bit is set.
DerInt(len, b) ==
    IF len = 33 THEN <<0>> \o Repeat(128 + b, 32) ELSE Repeat(b, 32)

\* An ASN.1 DER signature: tag, total length, 0x02 rLen r 0x02 sLen s.
DerSignature(first, rLen, sLen, rb, sb) ==
    <<first, 4 + rLen + sLen, 2, rLen>> \o DerInt(rLen, rb)
        \o <<2, sLen>> \o DerInt(sLen, sb)

\* bh2u: bytes to a hexadecimal string, two digits per byte (a digit is 0..15).
bh2u(b) ==
    [i \in 1..(2 * Len(b)) |->
        IF i % 2 = 1 THEN b[(i + 1) \div 2] \div 16 ELSE b[i \div 2] % 16]

\* Mutant: every part of a is at least the part of b.
VersionGE_componentwise(a, b) == \A i \in 1..3 : a[i] >= b[i]

\* versiontuple(a) >= versiontuple(b): Python's lexicographic tuple order.
VersionGE(a, b) ==
    \/ a[1] > b[1]
    \/ a[1] = b[1] /\ a[2] > b[2]
    \/ a[1] = b[1] /\ a[2] = b[2] /\ a[3] >= b[3]

\* ------------------------------------------------------ transaction inputs
\* The signature a cosigner (or an earlier signing) left in a slot.
CosignerSig == bh2u(DerSignature(DER_SEQUENCE, 32, 32, 7, 7))

\* The inputs a transaction is built from. type, x_pubkeys (in the order of
\* get_sorted_pubkeys), num_sig, the previous output spent (prevout_hash and
\* prevout_n as one identifier), the preimage script of the input
\* (Transaction.get_preimage_script) and the signature slots at entry.
TxIns ==
    { [type |-> "p2pkh", x_pubkeys |-> <<"xa">>, num_sig |-> 1, prevout |-> 1,
       script |-> 11, signatures |-> <<NoSig>>],
      [type |-> "p2pkh", x_pubkeys |-> <<"xf">>, num_sig |-> 1, prevout |-> 2,
       script |-> 12, signatures |-> <<NoSig>>],
      [type |-> "p2sh", x_pubkeys |-> <<"xf", "xa">>, num_sig |-> 2, prevout |-> 3,
       script |-> 13, signatures |-> <<CosignerSig, NoSig>>],
      [type |-> "p2sh", x_pubkeys |-> <<"xa", "xb">>, num_sig |-> 1, prevout |-> 4,
       script |-> 14, signatures |-> <<NoSig, NoSig>>],
      [type |-> "p2pk", x_pubkeys |-> <<"xb">>, num_sig |-> 1, prevout |-> 5,
       script |-> 15, signatures |-> <<NoSig>>],
      [type |-> "coinbase", x_pubkeys |-> <<>>, num_sig |-> 0, prevout |-> 6,
       script |-> 16, signatures |-> <<>>],
      [type |-> "p2pkh", x_pubkeys |-> <<"xb">>, num_sig |-> 1, prevout |-> 7,
       script |-> 17, signatures |-> <<CosignerSig>>] }

\* Transactions: up to MaxInputs inputs, no previous output spent twice.
TxInputLists ==
    { s \in UNION { [1..n -> TxIns] : n \in 0..MaxInputs } :
        \A i, j \in DOMAIN s : i # j => s[i].prevout # s[j].prevout }

\* tx.serialize(): the inputs in order, each with its previous output and its
\* signature slots, every slot behind its length.
RECURSIVE SerializeSlots(_)
SerializeSlots(slots) ==
    IF slots = <<>> THEN <<>>
    ELSE <<Len(Head(slots))>> \o Head(slots) \o SerializeSlots(Tail(slots))

RECURSIVE SerializeFrom(_, _, _)
SerializeFrom(txins, sigs, k) ==
    IF k > Len(txins) THEN <<>>
    ELSE <<txins[k].prevout, Len(sigs[k])>> \o SerializeSlots(sigs[k])
             \o SerializeFrom(txins, sigs, k + 1)

serialize(txins, sigs) == <<Len(txins)>> \o SerializeFrom(txins, sigs, 1)

\* tx.is_complete(): every input that needs signatures has num_sig of them.
is_complete(txins, sigs) ==
    \A k \in DOMAIN txins :
        txins[k].type # "coinbase" =>
            Cardinality({i \in DOMAIN sigs[k] : sigs[k][i] # NoSig}) >= txins[k].num_sig

\* ----------------------------------------------------- transaction outputs
\* tx.output_info: the wallet's own addresses, each with its (change, index).
output_info == [a \in {"own1", "own2"} |-> IF a = "own1" THEN <<1, 3>> ELSE <<1, 4>>]

\* The outputs a transaction is built from, all of TYPE_ADDRESS: the address
\* and the amount in satoshis.
TxOuts ==
    { [address |-> "ext1", amount |-> 300], [address |-> "ext2", amount |-> 70000],
      [address |-> "own1", amount |-> 1], [address |-> "own2", amount |-> 258] }

TxOutputLists ==
    { s \in UNION { [1..n -> TxOuts] : n \in 1..MaxOutputs } :
        \A i, j \in DOMAIN s : i # j => s[i].address # s[j].address }

\* int_to_hex(i, length): i in length bytes, least significant byte first.
RECURSIVE int_to_hex(_, _)
int_to_hex(i, length) ==
    IF length = 0 THEN <<>> ELSE <<i % 256>> \o int_to_hex(i \div 256, length - 1)

\* var_int(i): Bitcoin's variable-length integer.
var_int(i) ==
    IF i < 253 THEN <<i>>
    ELSE IF i < 65536 THEN <<253>> \o int_to_hex(i, 2)
    ELSE <<254>> \o int_to_hex(i, 4)

\* tx.pay_script(addr): the 25-byte pay-to-public-key-hash script of addr,
\* whose 20-byte hash is told apart here by one byte per address.
AddressByte(addr) ==
    CASE addr = "ext1" -> 225 [] addr = "ext2" -> 226
      [] addr = "own1" -> 1 [] OTHER -> 2
pay_script(addr) == <<118, 169, 20>> \o Repeat(AddressByte(addr), 20) \o <<136, 172>>

\* -------------------------------------------- sign_transaction, lines 336-364
MSG_COINBASE == "Coinbase not supported"
MSG_NO_KEY == "No matching x_key for sign_transaction"
MSG_MIXED == "P2SH / regular input mixed in same transaction not supported"

\* The for/else over enumerate(x_pubkeys): the position of the first extended
\* public key found in derivations (1-based here, signingPos + 1), 0 if none.
SigningPos(txin) ==
    LET hits == {i \in DOMAIN txin.x_pubkeys : txin.x_pubkeys[i] \in DOMAIN derivations}
    IN IF hits = {} THEN 0 ELSE CHOOSE i \in hits : \A j \in hits : i <= j

\* hwAddress: the derivation path of the key at the signing position, as the
\* (change, index) pair behind the keystore's fixed derivation prefix.
HwAddress(txin) == derivations[txin.x_pubkeys[SigningPos(txin)]]

\* Mutant: an input without a key of the wallet raises nothing and is fetched
\* with the first slot and a path left over.
FetchInput_stale(txin, acc) ==
    IF txin.type = "coinbase" THEN [acc EXCEPT !.error = MSG_COINBASE]
    ELSE [error |-> None,
          p2shTransaction |-> acc.p2shTransaction \/ txin.type = "p2sh",
          inputs |-> Append(acc.inputs,
                            [prevout |-> txin.prevout, redeemScript |-> txin.script,
                             signingPos |-> 1]),
          inputsPaths |-> Append(acc.inputsPaths, <<0, 0>>)]

\* One pass of the loop over tx.inputs(): the error message of give_error, or
\* None with the entry appended to inputs and the path to inputsPaths.
FetchInput(txin, acc) ==
    IF txin.type = "coinbase" THEN [acc EXCEPT !.error = MSG_COINBASE]
    ELSE IF SigningPos(txin) = 0 THEN [acc EXCEPT !.error = MSG_NO_KEY]
    ELSE [error |-> None,
          p2shTransaction |-> acc.p2shTransaction \/ txin.type = "p2sh",
          inputs |-> Append(acc.inputs,
                            [prevout |-> txin.prevout, redeemScript |-> txin.script,
                             signingPos |-> SigningPos(txin)]),
          inputsPaths |-> Append(acc.inputsPaths, HwAddress(txin))]

RECURSIVE FetchInputsFrom(_, _, _)
FetchInputsFrom(txins, k, acc) ==
    IF k > Len(txins) \/ acc.error # None THEN acc
    ELSE FetchInputsFrom(txins, k + 1, FetchInput(txins[k], acc))

FetchInputs(txins) ==
    FetchInputsFrom(txins, 1,
        [error |-> None, p2shTransaction |-> FALSE, inputs |-> <<>>, inputsPaths |-> <<>>])

\* Mutant: no sanity check.
SanityCheck_none(txins, p2shTransaction) == None

\* The sanity check of lines 361-364.
SanityCheck(txins, p2shTransaction) ==
    IF p2shTransaction /\ \E k \in DOMAIN txins : txins[k].type # "p2sh"
    THEN MSG_MIXED ELSE None

\* -------------------------------------------- sign_transaction, lines 366-386
\* Mutant: the amount is written most significant byte first.
RECURSIVE TxOutputFrom_bigEndian(_, _)
TxOutputFrom_bigEndian(outs, k) ==
    IF k > Len(outs) THEN <<>>
    ELSE [i \in 1..8 |-> int_to_hex(outs[k].amount, 8)[9 - i]]
             \o var_int(Len(pay_script(outs[k].address)))
             \o pay_script(outs[k].address) \o TxOutputFrom_bigEndian(outs, k + 1)

\* txOutput: the count, then per output the amount in 8 bytes, the length of
\* the script and the script.
RECURSIVE TxOutputFrom(_, _)
TxOutputFrom(outs, k) ==
    IF k > Len(outs) THEN <<>>
    ELSE int_to_hex(outs[k].amount, 8) \o var_int(Len(pay_script(outs[k].address)))
             \o pay_script(outs[k].address) \o TxOutputFrom(outs, k + 1)

TxOutput(outs) == var_int(Len(outs)) \o TxOutputFrom(outs, 1)

\* Mutant: a wallet address is the change whatever the number of outputs.
RecognizeOutput_single(out, n, acc) ==
    IF out.address \in DOMAIN output_info
    THEN [acc EXCEPT !.changePath = output_info[out.address],
                     !.changeAmount = out.amount]
    ELSE [acc EXCEPT !.output = out.address, !.outputAmount = out.amount]

\* Mutant: every output of a transaction with several outputs is the change.
RecognizeOutput_any(out, n, acc) ==
    IF n # 1
    THEN [acc EXCEPT !.changePath = <<1, 0>>, !.changeAmount = out.amount]
    ELSE [acc EXCEPT !.output = out.address, !.outputAmount = out.amount]

\* One pass of the loop that recognizes the outputs: a wallet address of a
\* transaction with more than one output sets the change, any other output
\* sets output.
RecognizeOutput(out, n, acc) ==
    IF out.address \in DOMAIN output_info /\ n # 1
    THEN [acc EXCEPT !.changePath = output_info[out.address],
                     !.changeAmount = out.amount]
    ELSE [acc EXCEPT !.output = out.address, !.outputAmount = out.amount]

RECURSIVE RecognizeFrom(_, _, _)
RecognizeFrom(outs, k, acc) ==
    IF k > Len(outs) THEN acc
    ELSE RecognizeFrom(outs, k + 1, RecognizeOutput(outs[k], Len(outs), acc))

NoOutputs ==
    [changePath |-> <<>>, changeAmount |-> -1, output |-> None, outputAmount |-> -1]

RecognizeOutputs(outs, p2shTransaction) ==
    IF p2shTransaction THEN NoOutputs ELSE RecognizeFrom(outs, 1, NoOutputs)


\* ------------------------------------------------------------------ state
VARIABLES
    tx,         \* the Transaction: inputs, their signature slots, raw
    ks,         \* the Ledger_KeyStore: signing, client
    client,     \* the Ledger_Client: preflightDone and the capability flags
    FMT_UI,     \* Address.FMT_UI, the address format of the user interface
    dongle,     \* the device: the script of its last startUntrustedTransaction
    pc,         \* where the running sign_transaction call stands
    frame,      \* the local variables of the running sign_transaction call
    log,        \* the calls made to the device and to the handler, in order
    outcome,    \* how the call ended: returned or raised, and what
    entry       \* the signature slots and tx.raw when the call was entered
                \* (sign_transaction), the arguments of the call (sign_message)

\* Calls made by several threads at once, lines 529-541 and 244-252.
VARIABLES
    threads,    \* per thread: where its call stands, the round-trips to come,
                \* the arguments of its give_error call, whether give_error
                \* showed the error, the message of the exception raised, and
                \* whether the call ran while a call of another thread did
    hid_lock,   \* devmgr.hid_lock: the thread that holds it, or None
    wire        \* the threads in the order the device is called by them, a
                \* run of round-trips of one thread counted once

\* A TaskThread of the GUI and its parent (gui/qt/util.py, lines 642-684).
VARIABLES
    tasks,      \* TaskThread.tasks, the queue of tasks and stop sentinels
    taskThread, \* the TaskThread: on_error, where run() stands, the task it runs
    events,     \* the doneSig emissions queued to the thread of the parent
    calls,      \* the tasks and callbacks executed so far, in order, each with
                \* the thread it ran on and what it was passed
    added       \* how many tasks were added, the callbacks add() was given for
                \* each, and whether stop() was called

\* An UpdateCheckThread of the GUI (gui/qt/util.py, lines 903-942).
VARIABLES
    updateCheck \* where run() stands, what the server answered, what
                \* get_update_info returned or raised, the signals emitted

vars == <<tx, ks, client, FMT_UI, dongle, pc, frame, log, outcome, entry,
          threads, hid_lock, wire, tasks, taskThread, events, calls, added,
          updateCheck>>

\* What a TaskThread and its parent act on.
background == <<tasks, taskThread, events, calls, added>>

\* What concurrent calls act on, besides ks and client, and what a single
\* call acts on.
concurrent == <<threads, hid_lock, wire>>
sequential == <<tx, FMT_UI, dongle, pc, frame, log, outcome, entry>>

\* The threads that call the keystore.
Threads == {"t1", "t2"}
NoError == [message |-> None, clear_client |-> FALSE]
Idle == [pc |-> "idle", call |-> None, todo |-> <<>>, shown |-> FALSE,
         overlapped |-> FALSE, error |-> NoError, raised |-> None]

\* Firmware versions a connected device may report.
Versions == {<<1, 0, 9>>, <<1, 1, 7>>, <<1, 1, 8>>, <<2, 0, 0>>}

\* Status words a failing device round-trip may carry.
PreflightErrors == {SW_LOCKED, SW_NOT_SUPPORTED, SW_TECHNICAL}
DeviceErrors == {SW_CANCELLED, SW_TECHNICAL}

\* What handler.get_auth returns: a PIN, 'paired', or nothing on cancellation.
AuthAnswers == {"", "pin", "paired"}

\* (first byte, length of r, length of s) of the signatures the device returns.
SigShapes == {<<48, 32, 32>>, <<49, 33, 32>>}

\* ------------------------------------------------------- calls and results
\* A call as the log keeps it: whom it went to, the operation, its arguments,
\* the status word of the BTChipException it raised (0 if none), and the
\* result where the code goes by it.
DeviceCall(op, args) == [to |-> "device", op |-> op, args |-> args, sw |-> 0, result |-> ""]
HandlerCall(op, args) == [to |-> "handler", op |-> op, args |-> args, sw |-> 0, result |-> ""]
Answered(lg, result) == [lg EXCEPT ![Len(lg)].result = result]
Raised(lg, sw) == [lg EXCEPT ![Len(lg)].sw = sw]

NoException == [type |-> "None", message |-> "", sw |-> 0]
Exception(message) == [type |-> "Exception", message |-> message, sw |-> 0]
BTChipException(sw) == [type |-> "BTChipException", message |-> "", sw |-> sw]
\* Exception(e) for a BTChipException e, as give_error(e, True) raises it.
ExceptionFrom(sw) == [type |-> "Exception", message |-> "BTChipException", sw |-> sw]

Running == [kind |-> "running", exit |-> "", exc |-> NoException]

EmptyFrame ==
    [inputs |-> <<>>, inputsPaths |-> <<>>, chipInputs |-> <<>>, redeemScripts |-> <<>>,
     signatures |-> <<>>, p2shTransaction |-> FALSE, pin |-> "", inputIndex |-> 0,
     cashaddr |-> FALSE, txOutput |-> <<>>, changePath |-> <<>>, changeAmount |-> -1,
     output |-> None, outputAmount |-> -1]

\* A transaction as sign_transaction receives it.
NewTx(txins, outs) ==
    LET sigs == [k \in DOMAIN txins |-> txins[k].signatures]
    IN [inputs |-> txins, outputs |-> outs, signatures |-> sigs,
        raw |-> serialize(txins, sigs)]

\* The transactions signed here: every list of inputs with one payment and
\* its change, and every list of outputs with one input to sign.
DefaultOutputs ==
    <<[address |-> "ext1", amount |-> 300], [address |-> "own1", amount |-> 1]>>
DefaultInputs ==
    <<[type |-> "p2pkh", x_pubkeys |-> <<"xa">>, num_sig |-> 1, prevout |-> 1,
       script |-> 11, signatures |-> <<NoSig>>]>>
Transactions ==
    {NewTx(txins, DefaultOutputs) : txins \in TxInputLists}
        \cup {NewTx(DefaultInputs, outs) : outs \in TxOutputLists}

\* No UpdateCheckThread has been started.
NoAnswer == [fetched |-> FALSE, version |-> <<>>, signatures |-> <<>>]
NotStarted == [pc |-> "unborn", answer |-> NoAnswer, result |-> <<>>, emitted |-> <<>>]

\* Between two calls the keystore holds no transaction.
NoTransaction == NewTx(<<>>, <<>>)

\* The keystore and its client as constructed (lines 38-40 and 211-218): no
\* preflight done, nothing being signed, no call running.
Init ==
    /\ tx = NoTransaction
    /\ ks = [signing |-> FALSE, client |-> "client"]
    /\ client = [preflightDone |-> FALSE, bitcoinCashSupported |-> FALSE,
                 cashaddrFWSupported |-> FALSE, cashaddrSWSupported |-> FALSE]
    /\ FMT_UI \in {"cashaddr", "legacy"}
    /\ dongle = [script |-> 0, chipInputs |-> <<>>]
    /\ pc = "caller"
    /\ frame = EmptyFrame
    /\ log = <<>>
    /\ outcome = Running
    /\ entry = [signatures |-> tx.signatures, raw |-> tx.raw]
    /\ threads = [t \in Threads |-> Idle]
    /\ hid_lock = None
    /\ wire = <<>>
    /\ tasks = <<>>
    /\ taskThread = [pc |-> "unborn", on_error |-> None, task |-> 0]
    /\ events = <<>>
    /\ calls = <<>>
    /\ added = [count |-> 0, given |-> <<>>, stopped |-> FALSE]
    /\ updateCheck = NotStarted

\* ------------------------------------------------- leaving sign_transaction
\* Mutant: the wrapper has no finally.
Leave_signing(kind, exit, exc, ksNow, lg) ==
    /\ pc' = "done"
    /\ outcome' = [kind |-> kind, exit |-> exit, exc |-> exc]
    /\ ks' = ksNow
    /\ log' = lg

\* The call returns (exit says on which path) or raises exc; the finally of
\* set_and_unset_signing clears ks.signing either way (lines 250-251).
Leave(kind, exit, exc, ksNow, lg) ==
    /\ pc' = "done"
    /\ outcome' = [kind |-> kind, exit |-> exit, exc |-> exc]
    /\ ks' = [ksNow EXCEPT !.signing = FALSE]
    /\ log' = lg

\* Mutant: the client is kept whatever clear_client says.
give_error_keepClient(message, exc, clear_client, lg, after) ==
    Leave("raise", "error", exc, [signing |-> FALSE, client |-> ks.client],
          (IF ~ks.signing THEN Append(lg, HandlerCall("show_error", message)) ELSE lg)
              \o after)

\* give_error(message, clear_client), lines 234-242, raising exc; after are
\* the handler calls of the finally clauses the exception passes through.
give_error(message, exc, clear_client, lg, after) ==
    Leave("raise", "error", exc,
          [signing |-> FALSE,
           client |-> IF clear_client THEN None ELSE ks.client],
          (IF ~ks.signing THEN Append(lg, HandlerCall("show_error", message)) ELSE lg)
              \o after)

\* ------------------------------------ Ledger_Client preflight, lines 142-198
MSG_FW_OLD == "HW1 firmware version too old. Please update at https://www.ledgerwallet.com"
MSG_ABORTED == "Aborted by user - please unplug the dongle and plug it again before retrying"
MSG_INVALID_CHANNEL == "Invalid channel"
MSG_NOT_BCH == "Device not in Bitcoin Cash mode"

\* Mutant: the version is not compared with BITCOIN_CASH_SUPPORT.
FirmwareTooOld_unversioned(version, checked) == ~checked

\* The test of line 149 on the firmware the device reports; checked is what
\* btchip's checkFirmware(firmwareInfo) answers.
FirmwareTooOld(version, checked) ==
    ~checked \/ ~VersionGE(version, BITCOIN_CASH_SUPPORT)

\* Mutant: every status leaves checkDevice as the same plain Exception.
PreflightException_plain(sw, message) == Exception(MSG_INVALID_CHANNEL)

\* What leaves checkDevice when a preflight round-trip raises
\* BTChipException(sw) with the given message: lines 179-188, then 194-197.
PreflightException(sw, message) ==
    IF sw = SW_TECHNICAL /\ message = MSG_INVALID_CHANNEL
    THEN Exception(MSG_INVALID_CHANNEL)
    ELSE IF sw = SW_NOT_SUPPORTED
    THEN [type |-> "BaseException", message |-> MSG_NOT_BCH, sw |-> 0]
    ELSE BTChipException(sw)

\* Mutant: checkDevice sets preflightDone in a finally.
PreflightFails_latched(lg, codes) ==
    \E sw \in codes, message \in {"", MSG_INVALID_CHANNEL} :
        /\ Leave("raise", "error", PreflightException(sw, message), ks, Raised(lg, sw))
        /\ client' = [client EXCEPT !.preflightDone = TRUE]
        /\ UNCHANGED <<tx, FMT_UI, dongle, frame, entry>>

\* A preflight round-trip fails: the exception leaves get_client (line 319)
\* and sign_transaction; preflightDone is not set.
PreflightFails(lg, codes) ==
    \E sw \in codes, message \in {"", MSG_INVALID_CHANNEL} :
        /\ Leave("raise", "error", PreflightException(sw, message), ks, Raised(lg, sw))
        /\ UNCHANGED <<tx, client, FMT_UI, dongle, frame, entry>>

PreflightGoes(next, lg) ==
    /\ pc' = next
    /\ log' = lg
    /\ UNCHANGED <<tx, ks, FMT_UI, dongle, frame, outcome, entry>>

\* Lines 144-151: the firmware version sets two capability flags; firmware
\* that is too old closes the dongle and raises.
getFirmwareVersion ==
    /\ pc = "getFirmwareVersion"
    /\ UNCHANGED concurrent
    /\ UNCHANGED background
    /\ UNCHANGED updateCheck
    /\ LET lg == Append(log, DeviceCall("getFirmwareVersion", <<>>))
       IN \/ \E version \in Versions, checked \in BOOLEAN :
                /\ client' = [client EXCEPT
                       !.bitcoinCashSupported = VersionGE(version, BITCOIN_CASH_SUPPORT),
                       !.cashaddrFWSupported = VersionGE(version, CASHADDR_SUPPORT)]
                /\ IF FirmwareTooOld(version, checked)
                   THEN /\ Leave("raise", "error", Exception(MSG_FW_OLD), ks,
                                 Append(Answered(lg, <<version, checked>>),
                                        DeviceCall("dongle.close", <<>>)))
                        /\ UNCHANGED <<tx, FMT_UI, dongle, frame, entry>>
                   ELSE /\ pc' = "getOperationMode"
                        /\ log' = Answered(lg, <<version, checked>>)
                        /\ UNCHANGED <<tx, ks, FMT_UI, dongle, frame, outcome, entry>>
          \/ PreflightFails(lg, PreflightErrors)

\* Lines 152-160: status 0x6985 closes the dongle and runs the setup dialog.
getOperationMode ==
    /\ pc = "getOperationMode"
    /\ UNCHANGED concurrent
    /\ UNCHANGED background
    /\ UNCHANGED updateCheck
    /\ LET lg == Append(log, DeviceCall("getOperationMode", <<>>))
       IN \/ PreflightGoes("has_detached_pin_support", lg) /\ UNCHANGED client
          \/ PreflightGoes("has_detached_pin_support",
                 Raised(lg, SW_CANCELLED)
                     \o <<DeviceCall("dongle.close", <<>>), HandlerCall("get_setup", <<>>)>>)
               /\ UNCHANGED client
          \/ PreflightFails(lg, PreflightErrors)

\* Lines 110-117: status 0x6d00 means no detached PIN support.
has_detached_pin_support ==
    /\ pc = "has_detached_pin_support"
    /\ UNCHANGED concurrent
    /\ UNCHANGED background
    /\ UNCHANGED updateCheck
    /\ LET lg == Append(log, DeviceCall("getVerifyPinRemainingAttempts", <<>>))
       IN \/ PreflightGoes("is_pin_validated", lg) /\ UNCHANGED client
          \/ PreflightGoes("getWalletPublicKey", Raised(lg, SW_NOT_SUPPORTED))
               /\ UNCHANGED client
          \/ PreflightFails(lg, PreflightErrors \ {SW_NOT_SUPPORTED})

\* Lines 119-128: 0x6A80 means the PIN is validated; 0x6982, or no exception
\* at all (the function then returns None), means it is not.
is_pin_validated ==
    /\ pc = "is_pin_validated"
    /\ UNCHANGED concurrent
    /\ UNCHANGED background
    /\ UNCHANGED updateCheck
    /\ LET lg == Append(log, DeviceCall("exchange", <<>>))
       IN \/ \E sw \in {0, SW_LOCKED} :
                PreflightGoes("password_dialog", Raised(lg, sw)) /\ UNCHANGED client
          \/ PreflightGoes("getWalletPublicKey", Raised(lg, SW_INVALID_DATA))
               /\ UNCHANGED client
          \/ PreflightFails(lg, PreflightErrors \ {SW_LOCKED})

\* Lines 162-170: the remaining attempts, then the PIN dialog (handler.get_word);
\* no answer raises.
password_dialog ==
    /\ pc = "password_dialog"
    /\ UNCHANGED concurrent
    /\ UNCHANGED background
    /\ UNCHANGED updateCheck
    /\ LET lg == Append(log, DeviceCall("getVerifyPinRemainingAttempts", <<>>))
           asked == Append(lg, HandlerCall("get_word", <<>>))
       IN \/ PreflightGoes("verifyPin", asked) /\ UNCHANGED client
          \/ /\ Leave("raise", "error", Exception(MSG_ABORTED), ks, asked)
             /\ UNCHANGED <<tx, client, FMT_UI, dongle, frame, entry>>
          \/ PreflightFails(lg, PreflightErrors)

\* Line 171.
verifyPin ==
    /\ pc = "verifyPin"
    /\ UNCHANGED concurrent
    /\ UNCHANGED background
    /\ UNCHANGED updateCheck
    /\ LET lg == Append(log, DeviceCall("verifyPin", <<>>))
       IN \/ PreflightGoes("getWalletPublicKey", lg) /\ UNCHANGED client
          \/ PreflightFails(lg, PreflightErrors)

\* Where the caller of get_client() goes on when the preflight has passed:
\* sign_message at line 278, show_address at line 458, sign_transaction at
\* line 320.
AfterPreflight ==
    IF "message" \in DOMAIN entry THEN "signMessagePrepare"
    ELSE IF "address" \in DOMAIN entry THEN "getWalletPublicKey_show"
    ELSE "fetch_inputs"

\* Lines 173-177, then line 198: a btchip library that knows the cashAddr
\* argument sets cashaddrSWSupported, a TypeError clears it; the preflight is
\* done and the caller of get_client() goes on.
getWalletPublicKey ==
    /\ pc = "getWalletPublicKey"
    /\ UNCHANGED concurrent
    /\ UNCHANGED background
    /\ UNCHANGED updateCheck
    /\ LET lg == Append(log, DeviceCall("getWalletPublicKey", <<>>))
       IN \/ \E supported \in BOOLEAN :
                /\ client' = [client EXCEPT !.cashaddrSWSupported = supported,
                                            !.preflightDone = TRUE]
                /\ PreflightGoes(AfterPreflight, IF supported THEN lg ELSE log)
          \/ PreflightFails(lg, PreflightErrors)

\* ----------------------------- Ledger_KeyStore.sign_transaction, lines 315-452
MSG_CONFIRM == "Confirm Transaction on your Ledger device..."
MSG_CONFIRMED == "Confirmed. Signing Transaction..."
MSG_CANCELLED == "Cancelled by user"
MSG_NEEDS_FW_UPDATE_CASHADDR == "Firmware version too old for CashAddr support."
MSG_NEEDS_SW_UPDATE_CASHADDR == "python-btchip is too old for CashAddr support."

Finished == HandlerCall("finished", <<>>)

\* supports_cashaddr(), lines 139-140.
supports_cashaddr == client.cashaddrFWSupported /\ client.cashaddrSWSupported

\* cashaddr_alert(), lines 254-260: the warnings shown.
cashaddr_alert ==
    IF FMT_UI = "cashaddr"
    THEN (IF ~client.cashaddrFWSupported
          THEN <<HandlerCall("show_warning", MSG_NEEDS_FW_UPDATE_CASHADDR)>> ELSE <<>>)
         \o (IF ~client.cashaddrSWSupported
             THEN <<HandlerCall("show_warning", MSG_NEEDS_SW_UPDATE_CASHADDR)>> ELSE <<>>)
    ELSE <<>>

\* Mutant: a complete transaction is signed like any other.
sign_transaction_unchecked ==
    /\ pc = "idle"
    /\ UNCHANGED concurrent
    /\ UNCHANGED background
    /\ UNCHANGED updateCheck
    /\ ks' = [ks EXCEPT !.signing = TRUE]
    /\ pc' = IF client.preflightDone THEN "fetch_inputs" ELSE "getFirmwareVersion"
    /\ UNCHANGED <<tx, client, FMT_UI, dongle, frame, log, outcome, entry>>

\* Lines 315-319: the decorator sets ks.signing; a complete transaction
\* returns at once; get_client() runs the preflight of a client that has not
\* passed it yet (checkDevice, lines 190-198).
sign_transaction ==
    /\ pc = "idle"
    /\ UNCHANGED concurrent
    /\ UNCHANGED background
    /\ UNCHANGED updateCheck
    /\ IF is_complete(tx.inputs, tx.signatures)
       THEN /\ Leave("return", "complete", NoException, [ks EXCEPT !.signing = TRUE], log)
            /\ UNCHANGED <<tx, client, FMT_UI, dongle, frame, entry>>
       ELSE /\ ks' = [ks EXCEPT !.signing = TRUE]
            /\ pc' = IF client.preflightDone THEN "fetch_inputs" ELSE "getFirmwareVersion"
            /\ UNCHANGED <<tx, client, FMT_UI, dongle, frame, log, outcome, entry>>

\* Lines 320-388: the locals, the second get_client() (no round-trip, the
\* preflight is done), cashaddr_alert, the inputs, the sanity check, the
\* output section, the outputs, and the message shown before the device is
\* driven. give_error raises out of the call: no try encloses these lines.
fetch_inputs ==
    /\ pc = "fetch_inputs"
    /\ UNCHANGED concurrent
    /\ UNCHANGED background
    /\ UNCHANGED updateCheck
    /\ LET lg == log \o cashaddr_alert
           fetched == FetchInputs(tx.inputs)
           mixed == SanityCheck(tx.inputs, fetched.p2shTransaction)
           outs == RecognizeOutputs(tx.outputs, fetched.p2shTransaction)
       IN IF fetched.error # None
          THEN /\ give_error(fetched.error, Exception(fetched.error), FALSE, lg, <<>>)
               /\ UNCHANGED <<tx, client, FMT_UI, dongle, frame, entry>>
          ELSE IF mixed # None
          THEN /\ give_error(mixed, Exception(mixed), FALSE, lg, <<>>)
               /\ UNCHANGED <<tx, client, FMT_UI, dongle, frame, entry>>
          ELSE /\ frame' = [frame EXCEPT
                     !.inputs = fetched.inputs,
                     !.inputsPaths = fetched.inputsPaths,
                     !.p2shTransaction = fetched.p2shTransaction,
                     !.txOutput = TxOutput(tx.outputs),
                     !.changePath = outs.changePath,
                     !.changeAmount = outs.changeAmount,
                     !.output = outs.output,
                     !.outputAmount = outs.outputAmount]
               /\ log' = Append(lg, HandlerCall("show_message", MSG_CONFIRM))
               /\ pc' = "enableAlternate2fa"
               /\ UNCHANGED <<tx, ks, client, FMT_UI, dongle, outcome, entry>>

\* Mutant: whatever the status, the call returns as if cancelled.
DeviceFails_silent(lg) ==
    \E sw \in DeviceErrors :
        /\ Leave("return", "cancelled_device", NoException, ks,
                 Append(Raised(lg, sw), Finished))
        /\ UNCHANGED <<tx, client, FMT_UI, dongle, frame, entry>>

\* Mutant: a round-trip that raised is made again.
DeviceFails_retry(lg) ==
    \E sw \in DeviceErrors :
        /\ log' = Raised(lg, sw)
        /\ UNCHANGED <<tx, ks, client, FMT_UI, dongle, pc, frame, outcome, entry>>

\* A device round-trip inside the try of lines 389-447 raises
\* BTChipException(sw): status 0x6985 returns (lines 437-439), any other goes
\* to give_error(e, True) (lines 440-442); the finally calls handler.finished().
DeviceFails(lg) ==
    \E sw \in DeviceErrors :
        /\ IF sw = SW_CANCELLED
           THEN Leave("return", "cancelled_device", NoException, ks,
                      Append(Raised(lg, sw), Finished))
           ELSE give_error("BTChipException", ExceptionFrom(sw), TRUE, Raised(lg, sw),
                           <<Finished>>)
        /\ UNCHANGED <<tx, client, FMT_UI, dongle, frame, entry>>

\* Lines 391-398: chipInputs and redeemScripts, one entry per fetched input.
ChipInput(utxo) == [value |-> utxo.prevout, witness |-> TRUE]
\* Mutant: the trusted inputs are listed last input first.
ChipInputs_reversed(inputs) ==
    [k \in DOMAIN inputs |-> ChipInput(inputs[Len(inputs) + 1 - k])]
ChipInputs(inputs) == [k \in DOMAIN inputs |-> ChipInput(inputs[k])]
RedeemScripts(inputs) == [k \in DOMAIN inputs |-> inputs[k].redeemScript]

\* Lines 389-404: the trusted inputs are built, then enableAlternate2fa(False).
enableAlternate2fa ==
    /\ pc = "enableAlternate2fa"
    /\ UNCHANGED concurrent
    /\ UNCHANGED background
    /\ UNCHANGED updateCheck
    /\ LET lg == Append(log, DeviceCall("enableAlternate2fa", FALSE))
       IN \/ /\ frame' = [frame EXCEPT !.chipInputs = ChipInputs(frame.inputs),
                                       !.redeemScripts = RedeemScripts(frame.inputs),
                                       !.inputIndex = 0,
                                       !.cashaddr = (FMT_UI = "cashaddr")]
             /\ log' = lg
             /\ pc' = "startUntrustedTransaction"
             /\ UNCHANGED <<tx, ks, client, FMT_UI, dongle, outcome, entry>>
          \/ DeviceFails(lg)

\* Mutant: cashAddr=True is passed whenever the interface shows CashAddr.
StartArgs_uiOnly(newTransaction, inputIndex, chipInputs, redeemScript) ==
    [newTransaction |-> newTransaction, inputIndex |-> inputIndex,
     chipInputs |-> chipInputs, redeemScript |-> redeemScript,
     cashAddr |-> frame.cashaddr]

\* The arguments of startUntrustedTransaction; cashAddr=True is passed when
\* the interface shows CashAddr and firmware and library support it.
StartArgs(newTransaction, inputIndex, chipInputs, redeemScript) ==
    [newTransaction |-> newTransaction, inputIndex |-> inputIndex,
     chipInputs |-> chipInputs, redeemScript |-> redeemScript,
     cashAddr |-> frame.cashaddr /\ supports_cashaddr]

\* Lines 405-410: the first startUntrustedTransaction, with every trusted
\* input and the redeem script of input inputIndex (0).
FirstStartArgs ==
    StartArgs(TRUE, frame.inputIndex, frame.chipInputs,
              frame.redeemScripts[frame.inputIndex + 1])

startUntrustedTransaction ==
    /\ pc = "startUntrustedTransaction"
    /\ UNCHANGED concurrent
    /\ UNCHANGED background
    /\ UNCHANGED updateCheck
    /\ LET lg == Append(log, DeviceCall("startUntrustedTransaction", FirstStartArgs))
       IN \/ /\ dongle' = [script |-> FirstStartArgs.redeemScript,
                           chipInputs |-> FirstStartArgs.chipInputs]
             /\ log' = lg
             /\ pc' = "finalizeInputFull"
             /\ UNCHANGED <<tx, ks, client, FMT_UI, frame, outcome, entry>>
          \/ DeviceFails(lg)

\* Mutant: the user is asked whatever the device answers.
NeedsAuth_always(outputData) == TRUE

\* Line 414: the device's answer decides whether the user is asked.
NeedsAuth(outputData) == outputData.confirmationNeeded

\* Mutant: the output section is built again, last output first, for the
\* device.
finalizeInputFull_rebuilt ==
    /\ pc = "finalizeInputFull"
    /\ UNCHANGED concurrent
    /\ UNCHANGED background
    /\ UNCHANGED updateCheck
    /\ LET rebuilt == [k \in DOMAIN tx.outputs |-> tx.outputs[Len(tx.outputs) + 1 - k]]
           lg == Append(log, DeviceCall("finalizeInputFull", TxOutput(rebuilt)))
       IN \/ \E confirmationNeeded \in BOOLEAN :
                /\ pc' = IF confirmationNeeded THEN "get_auth" ELSE "sign_inputs"
                /\ log' = Answered(lg, confirmationNeeded)
                /\ UNCHANGED <<tx, ks, client, FMT_UI, dongle, frame, outcome, entry>>
          \/ DeviceFails(lg)

\* Lines 411-414: finalizeInputFull(txOutput); the device says whether the
\* user has to confirm.
finalizeInputFull ==
    /\ pc = "finalizeInputFull"
    /\ UNCHANGED concurrent
    /\ UNCHANGED background
    /\ UNCHANGED updateCheck
    /\ LET lg == Append(log, DeviceCall("finalizeInputFull", frame.txOutput))
       IN \/ \E confirmationNeeded \in BOOLEAN :
                /\ pc' = IF NeedsAuth([confirmationNeeded |-> confirmationNeeded,
                                        outputData |-> frame.txOutput])
                         THEN "get_auth" ELSE "sign_inputs"
                /\ log' = Answered(lg, confirmationNeeded)
                /\ UNCHANGED <<tx, ks, client, FMT_UI, dongle, frame, outcome, entry>>
          \/ DeviceFails(lg)

\* The prompt of line 417, with the address set at line 415.
AuthCall == HandlerCall("get_auth", frame.output)

\* Mutant: an empty answer is taken for a PIN.
AuthCancelled_never(answer) == FALSE

\* Line 418: no PIN means the user cancelled.
AuthCancelled(answer) == answer = ""

\* Mutant: a cancelled prompt returns without the finally.
get_auth_unreleased ==
    /\ pc = "get_auth"
    /\ UNCHANGED concurrent
    /\ UNCHANGED background
    /\ UNCHANGED updateCheck
    /\ \E answer \in AuthAnswers :
         LET lg == Answered(log \o <<Finished, AuthCall>>, answer)
         IN IF AuthCancelled(answer)
            THEN /\ Leave("return", "cancelled", NoException, ks,
                          Append(lg, HandlerCall("show_error", MSG_CANCELLED)))
                 /\ UNCHANGED <<tx, client, FMT_UI, dongle, frame, entry>>
            ELSE /\ frame' = [frame EXCEPT !.pin = answer]
                 /\ log' = IF answer # "paired"
                           THEN Append(lg, HandlerCall("show_message", MSG_CONFIRMED))
                           ELSE lg
                 /\ pc' = "sign_inputs"
                 /\ UNCHANGED <<tx, ks, client, FMT_UI, dongle, outcome, entry>>

\* Lines 415-421: the dialog before is closed, the handler asks for the PIN;
\* no PIN raises UserWarning, which lines 434-436 turn into a return.
get_auth ==
    /\ pc = "get_auth"
    /\ UNCHANGED concurrent
    /\ UNCHANGED background
    /\ UNCHANGED updateCheck
    /\ \E answer \in AuthAnswers :
         LET lg == Answered(log \o <<Finished, AuthCall>>, answer)
         IN IF AuthCancelled(answer)
            THEN /\ Leave("return", "cancelled", NoException, ks,
                          lg \o <<HandlerCall("show_error", MSG_CANCELLED), Finished>>)
                 /\ UNCHANGED <<tx, client, FMT_UI, dongle, frame, entry>>
            ELSE /\ frame' = [frame EXCEPT !.pin = answer]
                 /\ log' = IF answer # "paired"
                           THEN Append(lg, HandlerCall("show_message", MSG_CONFIRMED))
                           ELSE lg
                 /\ pc' = "sign_inputs"
                 /\ UNCHANGED <<tx, ks, client, FMT_UI, dongle, outcome, entry>>

\* Mutant: every per-input round-trip is started for the first input.
InputStartArgs_first ==
    StartArgs(FALSE, 0, <<frame.chipInputs[1]>>, frame.redeemScripts[1])

\* Lines 422-429: startUntrustedTransaction for the input at inputIndex alone.
InputStartArgs ==
    StartArgs(FALSE, 0, <<frame.chipInputs[frame.inputIndex + 1]>>,
              frame.redeemScripts[frame.inputIndex + 1])

startUntrustedTransaction_input ==
    /\ pc = "sign_inputs"
    /\ UNCHANGED concurrent
    /\ UNCHANGED background
    /\ UNCHANGED updateCheck
    /\ frame.inputIndex < Len(frame.inputs)
    /\ LET lg == Append(log, DeviceCall("startUntrustedTransaction", InputStartArgs))
       IN \/ /\ dongle' = [script |-> InputStartArgs.redeemScript,
                           chipInputs |-> InputStartArgs.chipInputs]
             /\ log' = lg
             /\ pc' = "untrustedHashSign"
             /\ UNCHANGED <<tx, ks, client, FMT_UI, frame, outcome, entry>>
          \/ DeviceFails(lg)

\* The device's signature by the key at path over the transaction it was
\* started with: r tells the key, s the script signed.
DeviceSignature(shape, path, script) ==
    DerSignature(shape[1], shape[2], shape[3], 16 * (path[1] + 1) + path[2], script)

\* Mutant: every input is signed with the path of the first input.
SignArgs_firstPath == [path |-> frame.inputsPaths[1], pin |-> frame.pin]

\* Mutant: the PIN is passed for the first input only.
SignArgs_pinOnce ==
    [path |-> frame.inputsPaths[frame.inputIndex + 1],
     pin |-> IF frame.inputIndex = 0 THEN frame.pin ELSE ""]

\* The arguments of untrustedHashSign, line 430.
SignArgs == [path |-> frame.inputsPaths[frame.inputIndex + 1], pin |-> frame.pin]

\* Mutant: the first byte is left as the device sent it.
ForceSequenceTag_not(inputSignature) == inputSignature

\* Line 431: inputSignature[0] = 0x30.
ForceSequenceTag(inputSignature) == [inputSignature EXCEPT ![1] = DER_SEQUENCE]

\* Mutant: each signature is put into the transaction as soon as it arrives.
untrustedHashSign_eager ==
    /\ pc = "untrustedHashSign"
    /\ UNCHANGED concurrent
    /\ UNCHANGED background
    /\ UNCHANGED updateCheck
    /\ LET lg == Append(log, DeviceCall("untrustedHashSign", SignArgs))
           i == frame.inputIndex + 1
       IN \/ \E shape \in SigShapes :
                LET inputSignature == ForceSequenceTag(
                        DeviceSignature(shape, SignArgs.path, dongle.script))
                    spliced == [tx.signatures EXCEPT
                                   ![i][frame.inputs[i].signingPos] = bh2u(inputSignature)]
                IN /\ frame' = [frame EXCEPT !.signatures = Append(@, inputSignature),
                                             !.inputIndex = @ + 1]
                   /\ tx' = [tx EXCEPT !.signatures = spliced,
                                       !.raw = serialize(tx.inputs, spliced)]
                   /\ log' = lg
                   /\ pc' = "sign_inputs"
                   /\ UNCHANGED <<ks, client, FMT_UI, dongle, outcome, entry>>
          \/ DeviceFails(lg)

\* Lines 430-433: the signature of the input at inputIndex is collected.
untrustedHashSign ==
    /\ pc = "untrustedHashSign"
    /\ UNCHANGED concurrent
    /\ UNCHANGED background
    /\ UNCHANGED updateCheck
    /\ LET lg == Append(log, DeviceCall("untrustedHashSign", SignArgs))
       IN \/ \E shape \in SigShapes :
                /\ frame' = [frame EXCEPT
                       !.signatures = Append(@, ForceSequenceTag(
                            DeviceSignature(shape, SignArgs.path, dongle.script))),
                       !.inputIndex = @ + 1]
                /\ log' = lg
                /\ pc' = "sign_inputs"
                /\ UNCHANGED <<tx, ks, client, FMT_UI, dongle, outcome, entry>>
          \/ DeviceFails(lg)

\* Mutant: every signature goes to the first slot of its input.
Splice_firstSlot(sigs, inputs, signatures) ==
    [i \in DOMAIN sigs |-> [sigs[i] EXCEPT ![1] = bh2u(signatures[i])]]

\* Lines 449-451: the signature of input i goes to slot signingPos of input i.
Splice(sigs, inputs, signatures) ==
    [i \in DOMAIN sigs |->
        [sigs[i] EXCEPT ![inputs[i].signingPos] = bh2u(signatures[i])]]

\* Lines 446-452, the loop over: handler.finished(), the signatures are put
\* into the transaction and tx.raw is serialized again.
splice_signatures ==
    /\ pc = "sign_inputs"
    /\ UNCHANGED concurrent
    /\ UNCHANGED background
    /\ UNCHANGED updateCheck
    /\ frame.inputIndex >= Len(frame.inputs)
    /\ LET spliced == Splice(tx.signatures, frame.inputs, frame.signatures)
       IN tx' = [tx EXCEPT !.signatures = spliced,
                           !.raw = serialize(tx.inputs, spliced)]
    /\ Leave("return", "success", NoException, ks, Append(log, Finished))
    /\ UNCHANGED <<client, FMT_UI, dongle, frame, entry>>

\* The caller has the result of the call and takes the transaction away.
call_returns ==
    /\ pc = "done"
    /\ UNCHANGED concurrent
    /\ UNCHANGED background
    /\ UNCHANGED updateCheck
    /\ pc' = "caller"
    /\ tx' = NoTransaction
    /\ entry' = [signatures |-> NoTransaction.signatures, raw |-> NoTransaction.raw]
    /\ frame' = EmptyFrame
    /\ log' = <<>>
    /\ outcome' = Running
    /\ ks' = [ks EXCEPT !.client = "client"]
    /\ dongle' = [script |-> 0, chipInputs |-> <<>>]
    /\ UNCHANGED <<client, FMT_UI>>

\* The caller hands the keystore the next transaction to sign.
next_transaction ==
    /\ pc = "caller"
    /\ UNCHANGED concurrent
    /\ UNCHANGED background
    /\ UNCHANGED updateCheck
    /\ tx' \in Transactions
    /\ entry' = [signatures |-> tx'.signatures, raw |-> tx'.raw]
    /\ pc' = "idle"
    /\ UNCHANGED <<ks, client, FMT_UI, dongle, frame, log, outcome>>

Next ==
    \/ sign_transaction
    \/ getFirmwareVersion
    \/ getOperationMode
    \/ has_detached_pin_support
    \/ is_pin_validated
    \/ password_dialog
    \/ verifyPin
    \/ getWalletPublicKey
    \/ fetch_inputs
    \/ enableAlternate2fa
    \/ startUntrustedTransaction
    \/ finalizeInputFull
    \/ get_auth
    \/ startUntrustedTransaction_input
    \/ untrustedHashSign
    \/ splice_signatures
    \/ call_returns
    \/ next_transaction

Spec == Init /\ [][Next]_vars

\* ------------------------------ Ledger_KeyStore.sign_message, lines 272-313
MSG_SIGNING == "Signing message ..."
MSG_UNSIGNABLE == "Unfortunately, this message cannot be signed by the Ledger wallet. Only alphanumerical messages shorter than 140 characters are supported. Please remove any extra characters (tab, carriage return) and retry."

\* The messages handed to sign_message and the (change, index) pairs of the
\* addresses they are signed with.
Messages == {"hello", "tab and return"}
AddressSequences == {<<0, 1>>, <<1, 0>>}

\* Status words a failing signMessagePrepare or signMessageSign may carry.
MessageErrors == {SW_CANCELLED, SW_INVALID_DATA, SW_TECHNICAL}

\* The signatures signMessageSign returns: ASN.1 DER, r and s of 32 or 33
\* bytes, the parity of the public key in the low bit of the first byte.
MessageSignatures ==
    { DerSignature(first, rLen, sLen, rb, 3) :
        first \in {48, 49}, rLen \in {32, 33}, sLen \in {32, 33}, rb \in {1, 2} }

\* Mutant: the pad byte of a 33-byte r or s is kept.
CompactSignature_padded(signature) ==
    LET rLength == signature[4]
    IN <<27 + 4 + (signature[1] % 2)>>
           \o SubSeq(signature, 5, 4 + rLength)
           \o SubSeq(signature, 4 + rLength + 3, Len(signature))

\* Lines 303-313: the ASN.1 signature is parsed (indices from 1 here) and
\* turned into the marker byte followed by r and s.
CompactSignature(signature) ==
    LET rLength == signature[4]
        r == SubSeq(signature, 5, 4 + rLength)
        sLength == signature[4 + rLength + 2]
        s == SubSeq(signature, 4 + rLength + 3, Len(signature))
    IN <<27 + 4 + (signature[1] % 2)>>
           \o (IF rLength = 33 THEN Tail(r) ELSE r)
           \o (IF sLength = 33 THEN Tail(s) ELSE s)

\* The locals of a running sign_message call and the value it returns.
MessageFrame(address_path, pin, signature, result) ==
    [address_path |-> address_path, pin |-> pin, signature |-> signature,
     result |-> result]

\* Lines 272-277: the decorator sets ks.signing; get_client() runs the
\* preflight of a client that has not passed it yet.
sign_message ==
    /\ pc = "msg_idle"
    /\ UNCHANGED concurrent
    /\ UNCHANGED background
    /\ UNCHANGED updateCheck
    /\ ks' = [ks EXCEPT !.signing = TRUE]
    /\ pc' = IF client.preflightDone THEN "signMessagePrepare" ELSE "getFirmwareVersion"
    /\ UNCHANGED <<tx, client, FMT_UI, dongle, frame, log, outcome, entry>>

\* A device round-trip inside the try of lines 280-302 raises
\* BTChipException(sw): 0x6a80 goes to give_error with the message about
\* unsignable messages, 0x6985 returns b'', any other goes to
\* give_error(e, True); the finally calls handler.finished().
MessageFails(lg) ==
    \E sw \in MessageErrors :
        /\ IF sw = SW_INVALID_DATA
           THEN give_error(MSG_UNSIGNABLE, Exception(MSG_UNSIGNABLE), FALSE,
                           Raised(lg, sw), <<Finished>>)
           ELSE IF sw = SW_CANCELLED
           THEN Leave("return", "cancelled_device", NoException, ks,
                      Append(Raised(lg, sw), Finished))
           ELSE give_error("BTChipException", ExceptionFrom(sw), TRUE, Raised(lg, sw),
                           <<Finished>>)
        /\ UNCHANGED <<tx, client, FMT_UI, dongle, entry>>

\* Lines 278-283: the address path, the message shown while the device
\* works, and signMessagePrepare; the device says whether the user has to
\* confirm.
signMessagePrepare ==
    /\ pc = "signMessagePrepare"
    /\ UNCHANGED concurrent
    /\ UNCHANGED background
    /\ UNCHANGED updateCheck
    /\ LET address_path == entry.sequence
           lg == log \o <<HandlerCall("show_message", MSG_SIGNING),
                          DeviceCall("signMessagePrepare",
                                     [path |-> address_path, message |-> entry.message])>>
       IN /\ frame' = MessageFrame(address_path, "", <<>>, <<>>)
          /\ \/ \E confirmationNeeded \in BOOLEAN :
                   /\ pc' = IF confirmationNeeded THEN "get_auth_message"
                                                  ELSE "signMessageSign"
                   /\ log' = Answered(lg, confirmationNeeded)
                   /\ UNCHANGED <<tx, ks, client, FMT_UI, dongle, outcome, entry>>
             \/ MessageFails(lg)

\* Mutant: the answer of the handler is passed on without looking at it.
get_auth_message_unchecked ==
    /\ pc = "get_auth_message"
    /\ UNCHANGED concurrent
    /\ UNCHANGED background
    /\ UNCHANGED updateCheck
    /\ \E answer \in AuthAnswers :
         /\ frame' = [frame EXCEPT !.pin = answer]
         /\ log' = Answered(Append(log, HandlerCall("get_auth", frame.address_path)),
                            answer)
         /\ pc' = "signMessageSign"
         /\ UNCHANGED <<tx, ks, client, FMT_UI, dongle, outcome, entry>>

\* Lines 284-287 and 296-298: the handler asks for the PIN; no PIN raises
\* UserWarning, which shows the cancellation and returns b''.
get_auth_message ==
    /\ pc = "get_auth_message"
    /\ UNCHANGED concurrent
    /\ UNCHANGED background
    /\ UNCHANGED updateCheck
    /\ \E answer \in AuthAnswers :
         LET lg == Answered(Append(log, HandlerCall("get_auth", frame.address_path)),
                            answer)
         IN IF answer = ""
            THEN /\ Leave("return", "cancelled", NoException, ks,
                          lg \o <<HandlerCall("show_error", MSG_CANCELLED), Finished>>)
                 /\ UNCHANGED <<tx, client, FMT_UI, dongle, frame, entry>>
            ELSE /\ frame' = [frame EXCEPT !.pin = answer]
                 /\ log' = lg
                 /\ pc' = "signMessageSign"
                 /\ UNCHANGED <<tx, ks, client, FMT_UI, dongle, outcome, entry>>

\* Lines 288 and 301-313: signMessageSign(pin), handler.finished(), and the
\* compact signature returned.
signMessageSign ==
    /\ pc = "signMessageSign"
    /\ UNCHANGED concurrent
    /\ UNCHANGED background
    /\ UNCHANGED updateCheck
    /\ LET lg == Append(log, DeviceCall("signMessageSign", frame.pin))
       IN \/ \E signature \in MessageSignatures :
                /\ frame' = [frame EXCEPT !.signature = signature,
                                          !.result = CompactSignature(signature)]
                /\ Leave("return", "success", NoException, ks, Append(lg, Finished))
                /\ UNCHANGED <<tx, client, FMT_UI, dongle, entry>>
          \/ MessageFails(lg) /\ UNCHANGED frame

\* The caller hands the keystore the next message to sign.
next_message ==
    /\ pc = "caller"
    /\ UNCHANGED concurrent
    /\ UNCHANGED background
    /\ UNCHANGED updateCheck
    /\ \E message \in Messages, sequence \in AddressSequences :
         entry' = [message |-> message, sequence |-> sequence]
    /\ pc' = "msg_idle"
    /\ UNCHANGED <<tx, ks, client, FMT_UI, dongle, frame, log, outcome>>

NextMessage ==
    \/ sign_message
    \/ getFirmwareVersion
    \/ getOperationMode
    \/ has_detached_pin_support
    \/ is_pin_validated
    \/ password_dialog
    \/ verifyPin
    \/ getWalletPublicKey
    \/ signMessagePrepare
    \/ get_auth_message
    \/ signMessageSign
    \/ call_returns
    \/ next_message

SpecMessage == Init /\ [][NextMessage]_vars

\* ------------------------------ Ledger_KeyStore.show_address, lines 454-469
MSG_SHOWING == "Showing address ..."

\* Mutant: checkDevice runs the preflight whatever preflightDone says.
show_address_unmemoized ==
    /\ pc = "addr_idle"
    /\ UNCHANGED concurrent
    /\ UNCHANGED background
    /\ UNCHANGED updateCheck
    /\ ks' = [ks EXCEPT !.signing = TRUE]
    /\ pc' = "getFirmwareVersion"
    /\ UNCHANGED <<tx, client, FMT_UI, dongle, frame, log, outcome, entry>>

\* Lines 454-456: the decorator sets ks.signing; get_client() runs the
\* preflight of a client that has not passed it yet.
show_address ==
    /\ pc = "addr_idle"
    /\ UNCHANGED concurrent
    /\ UNCHANGED background
    /\ UNCHANGED updateCheck
    /\ ks' = [ks EXCEPT !.signing = TRUE]
    /\ pc' = IF client.preflightDone THEN "getWalletPublicKey_show"
                                      ELSE "getFirmwareVersion"
    /\ UNCHANGED <<tx, client, FMT_UI, dongle, frame, log, outcome, entry>>

\* Lines 458-469: cashaddr_alert, the message, getWalletPublicKey with
\* showOnScreen; whatever the device raises is dropped (except: pass) and the
\* finally calls handler.finished().
getWalletPublicKey_show ==
    /\ pc = "getWalletPublicKey_show"
    /\ UNCHANGED concurrent
    /\ UNCHANGED background
    /\ UNCHANGED updateCheck
    /\ LET lg == log \o cashaddr_alert
                    \o <<HandlerCall("show_message", MSG_SHOWING),
                         DeviceCall("getWalletPublicKey",
                                    [path |-> entry.address, showOnScreen |-> TRUE,
                                     cashAddr |-> FMT_UI = "cashaddr" /\ supports_cashaddr])>>
       IN \E sw \in {0} \cup DeviceErrors :
             Leave("return", IF sw = 0 THEN "success" ELSE "dropped", NoException, ks,
                   Append(Raised(lg, sw), Finished))
    /\ UNCHANGED <<tx, client, FMT_UI, dongle, frame, entry>>

\* ------------------------------------- the three decorated methods, one caller
\* The inputs of the transactions signed when the three methods are called in
\* turn: a p2pkh input of the wallet, one of a foreign key, the two p2sh
\* inputs, and a p2pkh input that is signed already.
SessionTxIns == {txin \in TxIns : txin.prevout \in {1, 2, 3, 4, 7}}

SessionInputLists ==
    { s \in UNION { [1..n -> SessionTxIns] : n \in 1..MaxInputs } :
        \A i, j \in DOMAIN s : i # j => s[i].prevout # s[j].prevout }

SessionTransactions == {NewTx(txins, DefaultOutputs) : txins \in SessionInputLists}

\* The caller calls sign_transaction, sign_message or show_address next.
next_call ==
    /\ pc = "caller"
    /\ UNCHANGED concurrent
    /\ UNCHANGED background
    /\ UNCHANGED updateCheck
    /\ \/ /\ tx' \in SessionTransactions
          /\ entry' = [signatures |-> tx'.signatures, raw |-> tx'.raw]
          /\ pc' = "idle"
       \/ /\ \E message \in Messages, sequence \in AddressSequences :
               entry' = [message |-> message, sequence |-> sequence]
          /\ pc' = "msg_idle"
          /\ UNCHANGED tx
       \/ /\ \E sequence \in AddressSequences : entry' = [address |-> sequence]
          /\ pc' = "addr_idle"
          /\ UNCHANGED tx
    /\ UNCHANGED <<ks, client, FMT_UI, dongle, frame, log, outcome>>

NextKeystore ==
    \/ sign_transaction
    \/ sign_message
    \/ show_address
    \/ getFirmwareVersion
    \/ getOperationMode
    \/ has_detached_pin_support
    \/ is_pin_validated
    \/ password_dialog
    \/ verifyPin
    \/ getWalletPublicKey
    \/ fetch_inputs
    \/ enableAlternate2fa
    \/ startUntrustedTransaction
    \/ finalizeInputFull
    \/ get_auth
    \/ startUntrustedTransaction_input
    \/ untrustedHashSign
    \/ splice_signatures
    \/ signMessagePrepare
    \/ get_auth_message
    \/ signMessageSign
    \/ getWalletPublicKey_show
    \/ call_returns
    \/ next_call

SpecKeystore == Init /\ [][NextKeystore]_vars

\* --------------------------- capability negotiation, lines 130-147, 173-177
\* The firmware versions of the devices plugged in, major.minor.patch.
FirmwareVersions ==
    { <<major, minor, patch>> : major \in 0..MaxVersionPart,
                                minor \in 0..MaxVersionPart, patch \in 0..MaxVersionPart }

\* Ledger_Client.__init__, lines 38-40.
NewClient ==
    [preflightDone |-> FALSE, bitcoinCashSupported |-> FALSE,
     cashaddrFWSupported |-> FALSE, cashaddrSWSupported |-> FALSE]

\* A device is plugged in and gets its Ledger_Client: the firmware it runs and
\* whether the btchip library installed knows the cashAddr argument.
create_client ==
    /\ pc = "caller"
    /\ \E firmware \in FirmwareVersions, cashAddrKnown \in BOOLEAN :
         entry' = [firmware |-> firmware, cashAddrKnown |-> cashAddrKnown]
    /\ client' = NewClient
    /\ pc' = "firmware_flags"
    /\ UNCHANGED <<tx, ks, FMT_UI, dongle, frame, log, outcome>>
    /\ UNCHANGED concurrent
    /\ UNCHANGED background
    /\ UNCHANGED updateCheck

\* Lines 144-151: the two flags computed from the firmware version; firmware
\* below BITCOIN_CASH_SUPPORT raises before the library is tried.
firmware_flags ==
    /\ pc = "firmware_flags"
    /\ client' = [client EXCEPT
           !.bitcoinCashSupported = VersionGE(entry.firmware, BITCOIN_CASH_SUPPORT),
           !.cashaddrFWSupported = VersionGE(entry.firmware, CASHADDR_SUPPORT)]
    /\ pc' = IF VersionGE(entry.firmware, BITCOIN_CASH_SUPPORT)
             THEN "library_flag" ELSE "negotiated"
    /\ UNCHANGED <<tx, ks, FMT_UI, dongle, frame, log, outcome, entry>>
    /\ UNCHANGED concurrent
    /\ UNCHANGED background
    /\ UNCHANGED updateCheck

\* Lines 173-177: getWalletPublicKey(..., cashAddr=True) sets the flag, a
\* TypeError of a library without the argument clears it.
library_flag ==
    /\ pc = "library_flag"
    /\ client' = [client EXCEPT !.cashaddrSWSupported = entry.cashAddrKnown]
    /\ pc' = "negotiated"
    /\ UNCHANGED <<tx, ks, FMT_UI, dongle, frame, log, outcome, entry>>
    /\ UNCHANGED concurrent
    /\ UNCHANGED background
    /\ UNCHANGED updateCheck

\* The device is unplugged and its client dropped (close, lines 45-46).
close ==
    /\ pc = "negotiated"
    /\ pc' = "caller"
    /\ client' = NewClient
    /\ entry' = [signatures |-> NoTransaction.signatures, raw |-> NoTransaction.raw]
    /\ UNCHANGED <<tx, ks, FMT_UI, dongle, frame, log, outcome>>
    /\ UNCHANGED concurrent
    /\ UNCHANGED background
    /\ UNCHANGED updateCheck

NextCapabilities ==
    \/ create_client
    \/ firmware_flags
    \/ library_flag
    \/ close

SpecCapabilities == Init /\ [][NextCapabilities]_vars

\* ------------------------- calls from several threads, lines 244-252, 529-541
\* The round-trips of perform_hw1_preflight on a device whose PIN is validated
\* (lines 144, 153, 112, 122, 174).
PreflightCalls ==
    <<"getFirmwareVersion", "getOperationMode", "getVerifyPinRemainingAttempts",
      "exchange", "getWalletPublicKey">>

\* The round-trips of a signing call that meets no error and no prompt:
\* sign_message (lines 281, 288), sign_transaction on one input (lines 403,
\* 406-410, 411, 425-429, 430).
SessionCalls(call) ==
    IF call = "sign_message" THEN <<"signMessagePrepare", "signMessageSign">>
    ELSE <<"enableAlternate2fa", "startUntrustedTransaction", "finalizeInputFull",
           "startUntrustedTransaction", "untrustedHashSign">>

\* The threads with a call under way.
Busy == {u \in Threads : threads[u].pc \notin {"idle", "done"}}

\* Lines 246-248 and 277 / 319: a thread calls a decorated method; the wrapper
\* sets ks.signing and the body calls get_client().
thread_calls(t) ==
    /\ threads[t].pc = "idle"
    /\ \E call \in {"sign_transaction", "sign_message"} :
         threads' = [u \in Threads |->
                        IF u = t
                        THEN [threads[t] EXCEPT !.pc = "get_client", !.call = call,
                                                !.overlapped = Busy # {}]
                        ELSE [threads[u] EXCEPT !.overlapped = @ \/ u \in Busy]]
    /\ ks' = [ks EXCEPT !.signing = TRUE]
    /\ UNCHANGED <<client, hid_lock, wire>>
    /\ UNCHANGED sequential
    /\ UNCHANGED background
    /\ UNCHANGED updateCheck

\* Mutant: the with block is entered whoever holds the lock.
hid_lock_acquire_unguarded(t) ==
    /\ threads[t].pc = "get_client"
    /\ hid_lock' = t
    /\ threads' = [threads EXCEPT ![t].pc = "client_for_keystore"]
    /\ UNCHANGED <<ks, client, wire>>
    /\ UNCHANGED sequential
    /\ UNCHANGED background
    /\ UNCHANGED updateCheck

\* Line 534: with devmgr.hid_lock, entered.
hid_lock_acquire(t) ==
    /\ threads[t].pc = "get_client"
    /\ hid_lock = None
    /\ hid_lock' = t
    /\ threads' = [threads EXCEPT ![t].pc = "client_for_keystore"]
    /\ UNCHANGED <<ks, client, wire>>
    /\ UNCHANGED sequential
    /\ UNCHANGED background
    /\ UNCHANGED updateCheck

\* Lines 535-536: the client is looked up and the lock is left.
hid_lock_release(t) ==
    /\ threads[t].pc = "client_for_keystore"
    /\ hid_lock' = None
    /\ threads' = [threads EXCEPT ![t].pc = "checkDevice"]
    /\ UNCHANGED <<ks, client, wire>>
    /\ UNCHANGED sequential
    /\ UNCHANGED background
    /\ UNCHANGED updateCheck

\* Lines 539-541 and 190-191: checkDevice on the client found; the preflight
\* is to run if preflightDone is not set.
checkDevice(t) ==
    /\ threads[t].pc = "checkDevice"
    /\ threads' = [threads EXCEPT ![t] =
           IF client.preflightDone
           THEN [@ EXCEPT !.pc = "round_trips",
                          !.todo = SessionCalls(threads[t].call)]
           ELSE [@ EXCEPT !.pc = "preflight", !.todo = PreflightCalls]]
    /\ UNCHANGED <<ks, client, hid_lock, wire>>
    /\ UNCHANGED sequential
    /\ UNCHANGED background
    /\ UNCHANGED updateCheck

\* The device receives a round-trip of thread t.
OnWire(t) ==
    IF wire # <<>> /\ wire[Len(wire)] = t THEN wire ELSE Append(wire, t)

\* One round-trip of perform_hw1_preflight (lines 142-188); after the last
\* one line 198 sets preflightDone and the body goes on. An exception of the
\* device leaves the call through the finally of the wrapper.
preflight_round_trip(t) ==
    /\ threads[t].pc = "preflight"
    /\ LET rest == Tail(threads[t].todo)
       IN \/ /\ IF rest = <<>>
                THEN /\ client' = [client EXCEPT !.preflightDone = TRUE]
                     /\ threads' = [threads EXCEPT ![t].pc = "round_trips",
                                        ![t].todo = SessionCalls(threads[t].call)]
                ELSE /\ threads' = [threads EXCEPT ![t].todo = rest]
                     /\ UNCHANGED client
          \/ /\ threads' = [threads EXCEPT ![t].pc = "finally", ![t].todo = <<>>]
             /\ UNCHANGED client
    /\ wire' = OnWire(t)
    /\ UNCHANGED <<ks, hid_lock>>
    /\ UNCHANGED sequential
    /\ UNCHANGED background
    /\ UNCHANGED updateCheck

\* The give_error calls a failed round-trip of the body leads to:
\* give_error(e, True) (lines 295, 442) and, in sign_message on status
\* 0x6a80, give_error with the message of line 291 and no clear_client.
ErrorCalls(call) ==
    {[message |-> "BTChipException", clear_client |-> TRUE]}
        \cup (IF call = "sign_message"
              THEN {[message |-> MSG_UNSIGNABLE, clear_client |-> FALSE]} ELSE {})

\* One round-trip of the body, self.get_client().op(...): get_client() takes
\* hid_lock for the lookup alone and has left it when the device is called.
\* An exception of the device goes to give_error.
round_trip(t) ==
    /\ threads[t].pc = "round_trips"
    /\ threads[t].todo # <<>>
    /\ hid_lock = None
    /\ wire' = OnWire(t)
    /\ \/ threads' = [threads EXCEPT ![t].todo = Tail(@)]
       \/ \E error \in ErrorCalls(threads[t].call) :
            threads' = [threads EXCEPT ![t].pc = "give_error", ![t].todo = <<>>,
                                       ![t].error = error]
    /\ UNCHANGED <<ks, client, hid_lock>>
    /\ UNCHANGED sequential
    /\ UNCHANGED background
    /\ UNCHANGED updateCheck

\* Mutant: the error is shown whatever ks.signing says.
thread_give_error_shown(t) ==
    /\ threads[t].pc = "give_error"
    /\ threads' = [threads EXCEPT ![t].pc = "finally", ![t].shown = TRUE,
                                   ![t].raised = threads[t].error.message]
    /\ ks' = [signing |-> FALSE,
              client |-> IF threads[t].error.clear_client THEN None ELSE ks.client]
    /\ UNCHANGED <<client, hid_lock, wire>>
    /\ UNCHANGED sequential
    /\ UNCHANGED background
    /\ UNCHANGED updateCheck

\* give_error(message, clear_client), lines 234-242, in thread t: the error
\* is shown when ks.signing is not set, else ks.signing is cleared; the client
\* is dropped if clear_client says so; Exception(message) is raised.
thread_give_error(t) ==
    /\ threads[t].pc = "give_error"
    /\ threads' = [threads EXCEPT ![t].pc = "finally", ![t].shown = ~ks.signing,
                                   ![t].raised = threads[t].error.message]
    /\ ks' = [signing |-> FALSE,
              client |-> IF threads[t].error.clear_client THEN None ELSE ks.client]
    /\ UNCHANGED <<client, hid_lock, wire>>
    /\ UNCHANGED sequential
    /\ UNCHANGED background
    /\ UNCHANGED updateCheck

\* Lines 250-251: the body is over, the finally of the wrapper clears
\* ks.signing.
thread_returns(t) ==
    /\ \/ threads[t].pc = "round_trips" /\ threads[t].todo = <<>>
       \/ threads[t].pc = "finally"
    /\ threads' = [threads EXCEPT ![t].pc = "done"]
    /\ ks' = [ks EXCEPT !.signing = FALSE]
    /\ UNCHANGED <<client, hid_lock, wire>>
    /\ UNCHANGED sequential
    /\ UNCHANGED background
    /\ UNCHANGED updateCheck

NextConcurrent ==
    \E t \in Threads :
        \/ thread_calls(t)
        \/ hid_lock_acquire(t)
        \/ hid_lock_release(t)
        \/ checkDevice(t)
        \/ preflight_round_trip(t)
        \/ round_trip(t)
        \/ thread_give_error(t)
        \/ thread_returns(t)

SpecConcurrent == Init /\ [][NextConcurrent]_vars

\* ------------------------------------ TaskThread, gui/qt/util.py:642-684
\* What tasks.put(None) puts (line 684): run() tests it with `not task`.
Sentinel == [id |-> 0, cb_success |-> None, cb_done |-> None, cb_error |-> None]

\* TaskThread.Task (lines 646-650) with the callbacks given to add(), None
\* for one not given; id tells the tasks apart, in the order they were added.
Task(id, cb_success, cb_done, cb_error) ==
    [id |-> id, cb_success |-> cb_success, cb_done |-> cb_done, cb_error |-> cb_error]

\* The callbacks a caller of add() passes: all of them, none, or all but
\* on_error.
CallbackChoices ==
    { [on_success |-> "cb_success", on_done |-> "cb_done", on_error |-> "cb_error"],
      [on_success |-> None, on_done |-> None, on_error |-> None],
      [on_success |-> "cb_success", on_done |-> "cb_done", on_error |-> None] }

\* The thread a TaskThread object lives in: the one that constructed it
\* (line 655), which is the thread of its parent.
Affinity == "parent"

\* Mutant: the signal is connected with a direct connection.
Connection_direct(emitter) == "direct"

\* doneSig.connect(self.on_done), line 658, the default connection type: a
\* signal emitted in the thread its receiver lives in is a direct call, one
\* emitted in another thread is queued to the thread of the receiver.
Connection(emitter) == IF emitter = Affinity THEN "direct" ELSE "queued"

\* Lines 654-659: the constructor keeps on_error, creates the queue, connects
\* doneSig and starts the worker, which waits in tasks.get().
TaskThread_init ==
    /\ taskThread.pc = "unborn"
    /\ \E on_error \in {None, "on_error"} :
         taskThread' = [pc |-> "get", on_error |-> on_error, task |-> Sentinel]
    /\ tasks' = <<>>
    /\ UNCHANGED <<events, calls, added>>
    /\ UNCHANGED <<concurrent, sequential, ks, client, updateCheck>>

\* WaitingDialog.__init__, lines 247-258: the dialog creates a TaskThread of
\* its own, without on_error, and adds its one task with self.accept as
\* on_done; accept() emits accepted, which is connected to on_accepted
\* (lines 263-264).
WaitingDialog_init ==
    /\ taskThread.pc = "unborn"
    /\ \E on_success \in {None, "cb_success"}, on_error \in {None, "cb_error"} :
         /\ tasks' = <<Task(1, on_success, "accept", on_error)>>
         /\ added' = [added EXCEPT
                !.count = 1,
                !.given = <<[on_success |-> on_success, on_done |-> "accept",
                             on_error |-> on_error]>>]
    /\ taskThread' = [pc |-> "get", on_error |-> None, task |-> Sentinel]
    /\ UNCHANGED <<events, calls>>
    /\ UNCHANGED <<concurrent, sequential, ks, client, updateCheck>>

\* The thread is the one of a WaitingDialog, which gives it one task
\* (line 258) and calls its stop() in on_accepted only.
OfWaitingDialog == added.count >= 1 /\ added.given[1].on_done = "accept"

\* add(task, on_success, on_done, on_error), lines 661-663, called in the
\* thread of the parent.
add ==
    /\ taskThread.pc # "unborn"
    /\ ~OfWaitingDialog
    /\ added.count < MaxTasks
    /\ \E given \in CallbackChoices :
         /\ tasks' = Append(tasks,
                        Task(added.count + 1, given.on_success, given.on_done,
                             IF given.on_error # None THEN given.on_error
                                                      ELSE taskThread.on_error))
         /\ added' = [added EXCEPT !.count = @ + 1, !.given = Append(@, given)]
    /\ UNCHANGED <<taskThread, events, calls>>
    /\ UNCHANGED <<concurrent, sequential, ks, client, updateCheck>>

\* stop(), lines 683-684.
stop ==
    /\ taskThread.pc # "unborn"
    /\ ~OfWaitingDialog
    /\ ~added.stopped
    /\ tasks' = Append(tasks, Sentinel)
    /\ added' = [added EXCEPT !.stopped = TRUE]
    /\ UNCHANGED <<taskThread, events, calls>>
    /\ UNCHANGED <<concurrent, sequential, ks, client, updateCheck>>

\* Mutant: the worker goes on to the next item when it meets the sentinel.
run_get_deaf ==
    /\ taskThread.pc = "get"
    /\ tasks # <<>>
    /\ tasks' = Tail(tasks)
    /\ taskThread' = [taskThread EXCEPT
           !.pc = IF Head(tasks).id = 0 THEN "get" ELSE "task",
           !.task = Head(tasks)]
    /\ UNCHANGED <<events, calls, added>>
    /\ UNCHANGED <<concurrent, sequential, ks, client, updateCheck>>

\* Lines 666-669, in the worker: tasks.get() returns the head of the queue
\* (it blocks while the queue is empty); the sentinel ends the loop.
run_get ==
    /\ taskThread.pc = "get"
    /\ tasks # <<>>
    /\ tasks' = Tail(tasks)
    /\ taskThread' = [taskThread EXCEPT
           !.pc = IF Head(tasks).id = 0 THEN "finished" ELSE "task",
           !.task = Head(tasks)]
    /\ UNCHANGED <<events, calls, added>>
    /\ UNCHANGED <<concurrent, sequential, ks, client, updateCheck>>

\* Mutant: the result is handed over before cb_done is called.
on_done_calls_resultFirst(emission, on) ==
    (IF emission.cb_result # None
     THEN <<[what |-> emission.cb_result, task |-> emission.task, on |-> on,
             arg |-> emission.result]>>
     ELSE <<>>)
    \o (IF emission.cb_done # None
        THEN <<[what |-> emission.cb_done, task |-> emission.task, on |-> on, arg |-> ""]>>
        ELSE <<>>)

\* on_done(result, cb_done, cb_result), lines 676-681, executed in thread on.
on_done_calls(emission, on) ==
    (IF emission.cb_done # None
     THEN <<[what |-> emission.cb_done, task |-> emission.task, on |-> on, arg |-> ""]>>
     ELSE <<>>)
    \o (IF emission.cb_result # None
        THEN <<[what |-> emission.cb_result, task |-> emission.task, on |-> on,
                arg |-> emission.result]>>
        ELSE <<>>)

\* Mutant: an exception of the task ends run().
run_task_fatal ==
    /\ taskThread.pc = "task"
    /\ \E raised \in BOOLEAN :
         LET task == taskThread.task
             ran == [what |-> "task", task |-> task.id, on |-> "worker",
                     arg |-> IF raised THEN "exc_info" ELSE "result"]
             emission == [task |-> task.id,
                          result |-> IF raised THEN "exc_info" ELSE "result",
                          cb_done |-> task.cb_done,
                          cb_result |-> IF raised THEN task.cb_error ELSE task.cb_success]
         IN /\ events' = Append(events, emission)
            /\ calls' = Append(calls, ran)
            /\ taskThread' = [taskThread EXCEPT !.pc = IF raised THEN "finished" ELSE "get"]
    /\ UNCHANGED <<tasks, added>>
    /\ UNCHANGED <<concurrent, sequential, ks, client, updateCheck>>

\* Lines 670-674, in the worker: the task returns and doneSig carries its
\* result and cb_success, or it raises and doneSig carries sys.exc_info() and
\* cb_error; the loop goes back to tasks.get().
run_task ==
    /\ taskThread.pc = "task"
    /\ \E raised \in BOOLEAN :
         LET task == taskThread.task
             ran == [what |-> "task", task |-> task.id, on |-> "worker",
                     arg |-> IF raised THEN "exc_info" ELSE "result"]
             emission == [task |-> task.id,
                          result |-> IF raised THEN "exc_info" ELSE "result",
                          cb_done |-> task.cb_done,
                          cb_result |-> IF raised THEN task.cb_error ELSE task.cb_success]
         IN IF Connection("worker") = "queued"
            THEN /\ events' = Append(events, emission)
                 /\ calls' = Append(calls, ran)
            ELSE /\ calls' = Append(calls, ran) \o on_done_calls(emission, "worker")
                 /\ UNCHANGED events
    /\ taskThread' = [taskThread EXCEPT !.pc = "get"]
    /\ UNCHANGED <<tasks, added>>
    /\ UNCHANGED <<concurrent, sequential, ks, client, updateCheck>>

\* The event loop of the parent's thread delivers the oldest queued doneSig:
\* on_done runs there.  A cb_done that is the accept of a WaitingDialog runs
\* on_accepted, which calls stop().
on_done ==
    /\ events # <<>>
    /\ calls' = calls \o on_done_calls(Head(events), Affinity)
    /\ events' = Tail(events)
    /\ IF Head(events).cb_done = "accept"
       THEN /\ tasks' = Append(tasks, Sentinel)
            /\ added' = [added EXCEPT !.stopped = TRUE]
       ELSE UNCHANGED <<tasks, added>>
    /\ UNCHANGED taskThread
    /\ UNCHANGED <<concurrent, sequential, ks, client, updateCheck>>

NextTaskThread ==
    \/ TaskThread_init
    \/ WaitingDialog_init
    \/ add
    \/ stop
    \/ run_get
    \/ run_task
    \/ on_done

SpecTaskThread == Init /\ [][NextTaskThread]_vars

\* The worker is a running thread and the parent runs an event loop: the
\* worker takes a task that is in the queue, a task that was started returns
\* or raises, and a queued doneSig is delivered.
SpecTaskThreadFair ==
    Init /\ [][NextTaskThread]_vars
         /\ WF_vars(run_get) /\ WF_vars(run_task) /\ WF_vars(on_done)

\* ----------------------------- UpdateCheckThread, gui/qt/util.py:903-942
\* UpdateCheck.VERSION_ANNOUNCEMENT_SIGNING_KEYS, lines 834-836.
VERSION_ANNOUNCEMENT_SIGNING_KEYS == {"LWZzbv5SbiRRjBDL6dUYRdBX9Dp89RDZgG"}

\* The addresses an announcement names, and the version strings it carries,
\* character by character, one of them with a blank in front.
AnnouncementAddresses == VERSION_ANNOUNCEMENT_SIGNING_KEYS \cup {"unknown1", "unknown2"}
VersionStrings == {<<"4", ".", "0">>, <<" ", "4", ".", "1">>}

\* A signature as the announcement carries it: whether it is base64 that
\* b64decode accepts, and the key and the message it was made with.
AnnouncedSignatures ==
    { [b64 |-> TRUE, by |-> by, over |-> over] :
          by \in AnnouncementAddresses, over \in VersionStrings }
        \cup {[b64 |-> FALSE, by |-> None, over |-> <<>>]}

\* The 'signatures' of an announcement, in the order the dict yields them:
\* no address twice.
SignatureDicts ==
    { d \in UNION { [1..n -> [address : AnnouncementAddresses, sig : AnnouncedSignatures]] :
                        n \in 0..MaxSignatures } :
        \A i, j \in DOMAIN d : i # j => d[i].address # d[j].address }

\* What session.get(UpdateCheck.url) and result.json() give: a signed
\* version dict, or an exception (no answer that parses).
ServerAnswers ==
    { [fetched |-> TRUE, version |-> v, signatures |-> d] :
          v \in VersionStrings, d \in SignatureDicts }
        \cup {NoAnswer}

\* ecc.verify_message_with_address(address, sig65, message): the signature
\* was made over the message with the key of the address.
verify_message_with_address(address, sig, message) ==
    sig.by = address /\ sig.over = message

\* str.strip() and LooseVersion of a version string: the blanks around it
\* dropped, the components between the dots.
RECURSIVE strip(_)
strip(v) ==
    IF v = <<>> THEN v
    ELSE IF Head(v) = " " THEN strip(Tail(v))
    ELSE IF v[Len(v)] = " " THEN strip(SubSeq(v, 1, Len(v) - 1))
    ELSE v
LooseVersion(v) == SelectSeq(v, LAMBDA c : c # ".")

\* Mutant: the signature of any address is verified.
CheckSignature_anyAddress(entry_, version_num) ==
    IF ~entry_.sig.b64 THEN "raise"
    ELSE IF verify_message_with_address(entry_.address, entry_.sig, version_num)
    THEN "break"
    ELSE "continue"

\* One pass of the loop of lines 924-932: an address that is not a signing
\* key is skipped, b64decode may raise, a signature that verifies breaks
\* out of the loop.
CheckSignature(entry_, version_num) ==
    IF entry_.address \notin VERSION_ANNOUNCEMENT_SIGNING_KEYS THEN "continue"
    ELSE IF ~entry_.sig.b64 THEN "raise"
    ELSE IF verify_message_with_address(entry_.address, entry_.sig, version_num)
    THEN "break"
    ELSE "continue"

\* The loop with its else clause (lines 924-934): TRUE if it was left by
\* break, FALSE if an exception was raised.
RECURSIVE ValidSignatureFrom(_, _, _)
ValidSignatureFrom(sigs, k, version_num) ==
    IF k > Len(sigs) THEN FALSE
    ELSE LET step == CheckSignature(sigs[k], version_num)
         IN IF step = "break" THEN TRUE
            ELSE IF step = "raise" THEN FALSE
            ELSE ValidSignatureFrom(sigs, k + 1, version_num)

\* UpdateCheck.__init__, lines 864-867: the thread is created and started;
\* the server's answer is what this run will get.
UpdateCheckThread_start ==
    /\ updateCheck.pc = "unborn"
    /\ \E answer \in ServerAnswers :
         updateCheck' = [pc |-> "get_update_info", answer |-> answer, result |-> <<>>,
                         emitted |-> <<>>]
    /\ UNCHANGED <<concurrent, sequential, background, ks, client>>

\* get_update_info, lines 911-935, awaited by run() at line 939: it returns
\* LooseVersion(version_num.strip()) or raises.
get_update_info ==
    /\ updateCheck.pc = "get_update_info"
    /\ LET answer == updateCheck.answer
       IN IF answer.fetched /\ ValidSignatureFrom(answer.signatures, 1, answer.version)
          THEN updateCheck' = [updateCheck EXCEPT
                   !.pc = "checked", !.result = LooseVersion(strip(answer.version))]
          ELSE updateCheck' = [updateCheck EXCEPT !.pc = "except"]
    /\ UNCHANGED <<concurrent, sequential, background, ks, client>>

\* Line 939: checked is emitted with what get_update_info returned.
checked_emit ==
    /\ updateCheck.pc = "checked"
    /\ updateCheck' = [updateCheck EXCEPT
           !.pc = "finished",
           !.emitted = Append(@, [signal |-> "checked", version |-> updateCheck.result])]
    /\ UNCHANGED <<concurrent, sequential, background, ks, client>>

\* Lines 940-942: the exception is printed and failed is emitted.
failed_emit ==
    /\ updateCheck.pc = "except"
    /\ updateCheck' = [updateCheck EXCEPT
           !.pc = "finished",
           !.emitted = Append(@, [signal |-> "failed", version |-> <<>>])]
    /\ UNCHANGED <<concurrent, sequential, background, ks, client>>

\* run() has returned: the window is closed, and the next update check
\* creates a thread of its own.
UpdateCheckThread_finished ==
    /\ updateCheck.pc = "finished"
    /\ updateCheck' = NotStarted
    /\ UNCHANGED <<concurrent, sequential, background, ks, client>>

NextUpdateCheck ==
    \/ UpdateCheckThread_start
    \/ get_update_info
    \/ checked_emit
    \/ failed_emit
    \/ UpdateCheckThread_finished

SpecUpdateCheck == Init /\ [][NextUpdateCheck]_vars

\* ================================================================= claims
SigningRoundTrips ==
    {"enableAlternate2fa", "startUntrustedTransaction", "finalizeInputFull",
     "untrustedHashSign"}

DeviceCalls == SelectSeq(log, LAMBDA e : e.to = "device")
CallsOf(to, op) == SelectSeq(log, LAMBDA e : e.to = to /\ e.op = op)
InputStarts ==
    SelectSeq(log, LAMBDA e : e.to = "device" /\ e.op = "startUntrustedTransaction"
                                /\ ~e.args.newTransaction)
NoSigningRoundTrip ==
    \A i \in DOMAIN log : ~(log[i].to = "device" /\ log[i].op \in SigningRoundTrips)

TxUnchanged == tx.signatures = entry.signatures /\ tx.raw = entry.raw
Succeeded == pc = "done" /\ outcome.exit = "success"
ReturnedNothing == outcome.kind = "return" /\ outcome.exc = NoException

\* The wallet's key of an input as the claims speak of it: the first of the
\* input's extended public keys that the wallet's derivation records hold.
OwnKeys(txin) == {i \in DOMAIN txin.x_pubkeys : txin.x_pubkeys[i] \in {"xa", "xb"}}
OwnSlot(txin) == CHOOSE i \in OwnKeys(txin) : \A j \in OwnKeys(txin) : i <= j
OwnPath(txin) == IF txin.x_pubkeys[OwnSlot(txin)] = "xa" THEN <<0, 1>> ELSE <<1, 0>>

\* C1: in a successful run on n inputs untrustedHashSign is called exactly n
\* times; the k-th call carries the path of input k and follows a
\* startUntrustedTransaction with the redeem script and trusted input of
\* input k; the k-th signature collected is the device's signature by the key
\* of input k over the script of input k.
C1_EachInputSignedOnceInOrder ==
    Succeeded =>
        LET signs == CallsOf("device", "untrustedHashSign")
            n == Len(tx.inputs)
        IN /\ Len(signs) = n
           /\ Len(InputStarts) = n
           /\ Len(frame.signatures) = n
           /\ \A k \in 1..n :
                /\ signs[k].args.path = OwnPath(tx.inputs[k])
                /\ InputStarts[k].args.redeemScript = tx.inputs[k].script
                /\ InputStarts[k].args.chipInputs
                       = <<[value |-> tx.inputs[k].prevout, witness |-> TRUE]>>
                /\ \E shape \in SigShapes :
                     Tail(frame.signatures[k])
                         = Tail(DeviceSignature(shape, OwnPath(tx.inputs[k]),
                                                tx.inputs[k].script))

C1_Witness ==
    /\ Succeeded
    /\ Len(tx.inputs) = MaxInputs
    /\ OwnPath(tx.inputs[1]) # OwnPath(tx.inputs[2])

\* C2: signatures are applied all or nothing: in every state the slots and
\* tx.raw are those of entry, unless the call has ended in success and every
\* input holds its new signature; a call that ends otherwise leaves both as
\* they were.
C2_AllOrNothing ==
    \/ TxUnchanged
    \/ /\ Succeeded
       /\ \A k \in DOMAIN tx.inputs :
            tx.signatures[k][OwnSlot(tx.inputs[k])] = bh2u(frame.signatures[k])

C2_Witness ==
    /\ pc = "done"
    /\ outcome.kind = "raise"
    /\ Len(frame.signatures) >= 1
    /\ Len(frame.signatures) < Len(tx.inputs)

\* C3: when handler.get_auth returns nothing, the call returns without an
\* exception, untrustedHashSign is not called in that session and the
\* transaction is as it was.
C3_GateCancellation ==
    \A i \in DOMAIN log :
        (log[i].to = "handler" /\ log[i].op = "get_auth" /\ log[i].result = "") =>
            /\ pc = "done"
            /\ ReturnedNothing
            /\ CallsOf("device", "untrustedHashSign") = <<>>
            /\ TxUnchanged

C3_Witness ==
    /\ pc = "done"
    /\ Len(tx.inputs) = MaxInputs
    /\ \E i \in DOMAIN log : log[i].op = "get_auth" /\ log[i].result = ""

\* C4: handler.get_auth is called at most once in a session, and only right
\* after the finalizeInputFull that follows the first
\* startUntrustedTransaction has answered confirmationNeeded: no device call
\* lies between the two, and no per-input round-trip before it.
C4_GateAtMostOnce ==
    LET gates == {i \in DOMAIN log : log[i].to = "handler" /\ log[i].op = "get_auth"}
    IN /\ Cardinality(gates) <= 1
       /\ \A i \in gates :
            /\ \A j \in 1..i :
                 ~(/\ log[j].to = "device"
                   /\ log[j].op \in {"startUntrustedTransaction", "untrustedHashSign"}
                   /\ (log[j].op = "startUntrustedTransaction" => ~log[j].args.newTransaction))
            /\ \E j \in 1..(i - 1) :
                 /\ log[j].to = "device" /\ log[j].op = "finalizeInputFull"
                 /\ log[j].sw = 0 /\ log[j].result = TRUE
                 /\ \A m \in (j + 1)..(i - 1) : log[m].to = "handler"

C4_Witness ==
    /\ Succeeded
    /\ Len(tx.inputs) = MaxInputs
    /\ CallsOf("handler", "get_auth") # <<>>

\* C5: every untrustedHashSign of a session is passed the same token: what the
\* one get_auth returned, or the empty token when the user was not asked.
C5_SameToken ==
    LET gates == CallsOf("handler", "get_auth")
        token == IF gates = <<>> THEN "" ELSE gates[1].result
        signs == CallsOf("device", "untrustedHashSign")
    IN \A k \in DOMAIN signs : signs[k].args.pin = token

C5_Witness ==
    /\ Succeeded
    /\ Len(tx.inputs) = MaxInputs
    /\ CallsOf("handler", "get_auth") # <<>>
    /\ frame.pin = "pin"

\* The call got as far as the sanity check of line 361: the transaction was
\* not complete, the preflight passed, no input is a coinbase and every input
\* has a key of the wallet.
Foreign(txin) == txin.type # "coinbase" /\ OwnKeys(txin) = {}
CompleteAtEntry == is_complete(tx.inputs, entry.signatures)
ReachedSanityCheck ==
    /\ pc = "done"
    /\ ~CompleteAtEntry
    /\ client.preflightDone
    /\ \A k \in DOMAIN tx.inputs :
         tx.inputs[k].type # "coinbase" /\ ~Foreign(tx.inputs[k])

\* C6 as claimed: a transaction with inputs of two different script types
\* fails with the mixed-input-types error and no device call at all was made
\* during the call.
C6_Original ==
    (/\ ReachedSanityCheck
     /\ \E i, j \in DOMAIN tx.inputs : tx.inputs[i].type # tx.inputs[j].type)
        => /\ outcome.kind = "raise"
           /\ outcome.exc = Exception(MSG_MIXED)
           /\ DeviceCalls = <<>>

\* C6: a transaction with a p2sh input and an input of another type fails
\* with the mixed-input-types error before any signing round-trip; the device
\* calls of the call, if any, are those of the preflight that get_client runs
\* on a client that has not passed it yet.
C6_MixedP2shRejectedBeforeSigning ==
    (/\ ReachedSanityCheck
     /\ \E i, j \in DOMAIN tx.inputs :
          tx.inputs[i].type = "p2sh" /\ tx.inputs[j].type # "p2sh")
        => /\ outcome.kind = "raise"
           /\ outcome.exc = Exception(MSG_MIXED)
           /\ NoSigningRoundTrip
           /\ TxUnchanged
           /\ CallsOf("device", "getFirmwareVersion") = <<>> => DeviceCalls = <<>>

C6_Witness ==
    /\ pc = "done"
    /\ outcome.exc = Exception(MSG_MIXED)
    /\ DeviceCalls = <<>>
    /\ \E i, j \in DOMAIN tx.inputs :
         tx.inputs[i].type = "p2sh" /\ tx.inputs[j].type = "p2pkh"

\* C7: a transaction with an input none of whose extended public keys is in
\* the wallet's derivation records gets no signing round-trip and keeps its
\* signature slots; the call fails with the no-matching-key error (unless it
\* already failed in the preflight or on a coinbase input in front).
C7_NoMatchingKey ==
    LET foreign == {k \in DOMAIN tx.inputs : Foreign(tx.inputs[k])}
    IN foreign # {} =>
         /\ NoSigningRoundTrip
         /\ TxUnchanged
         /\ (/\ pc = "done"
             /\ ~CompleteAtEntry
             /\ client.preflightDone
             /\ \A k \in DOMAIN tx.inputs :
                  tx.inputs[k].type = "coinbase" => \E f \in foreign : f < k)
              => outcome.kind = "raise" /\ outcome.exc = Exception(MSG_NO_KEY)

C7_Witness ==
    /\ pc = "done"
    /\ outcome.exc = Exception(MSG_NO_KEY)
    /\ Len(tx.inputs) = MaxInputs
    /\ ~Foreign(tx.inputs[1])
    /\ \A k \in DOMAIN tx.signatures : \A i \in DOMAIN tx.signatures[k] :
         tx.signatures[k][i] = NoSig

\* Below (1,1,8) in the order of version tuples.
BelowBaseThreshold(v) ==
    \/ v[1] < 1
    \/ v[1] = 1 /\ v[2] < 1
    \/ v[1] = 1 /\ v[2] = 1 /\ v[3] < 8

\* C8: when the device reports a firmware version below (1,1,8) the preflight
\* raises the firmware-too-old error, preflightDone stays unset and the call
\* makes no signing round-trip.
C8_OldFirmwareFailsFast ==
    \A i \in DOMAIN log :
        (/\ log[i].to = "device" /\ log[i].op = "getFirmwareVersion"
         /\ log[i].sw = 0
         /\ BelowBaseThreshold(log[i].result[1]))
            => /\ pc = "done"
               /\ outcome.kind = "raise"
               /\ outcome.exc = Exception(MSG_FW_OLD)
               /\ ~client.preflightDone
               /\ NoSigningRoundTrip
               /\ TxUnchanged

C8_Witness ==
    /\ pc = "done"
    /\ ~CompleteAtEntry
    /\ \E i \in DOMAIN log :
         /\ log[i].to = "device" /\ log[i].op = "getFirmwareVersion"
         /\ log[i].sw = 0
         /\ log[i].result = <<(<<1, 1, 7>>), TRUE>>

\* C9: sign_transaction on a complete transaction returns at once: no call to
\* the device or to the handler, the transaction unchanged, nothing raised.
C9_CompleteIsNoOp ==
    (pc # "caller" /\ CompleteAtEntry) =>
        /\ pc \in {"idle", "done"}
        /\ log = <<>>
        /\ TxUnchanged
        /\ pc = "done" => ReturnedNothing /\ ~ks.signing

C9_Witness ==
    /\ pc = "done"
    /\ CompleteAtEntry
    /\ tx.inputs # <<>>
    /\ \E k \in DOMAIN tx.inputs : tx.inputs[k].type # "coinbase"
    /\ ~client.preflightDone

SingleScriptType ==
    \A i, j \in DOMAIN tx.inputs : tx.inputs[i].type = tx.inputs[j].type

\* C10 as claimed: after a successful call on inputs of a single script type
\* the signing slot of every input holds a signature of exactly 65 bytes.
C10_Original ==
    (Succeeded /\ SingleScriptType) =>
        \A k \in DOMAIN tx.inputs :
            LET slot == tx.signatures[k][OwnSlot(tx.inputs[k])]
            IN slot # NoSig /\ Len(slot) = 2 * 65

\* C10: after a successful call on inputs of a single script type the signing
\* slot of every input holds, in hexadecimal, the bytes the device returned
\* for that input with the first byte set to 0x30 and the others unchanged:
\* a DER signature, not one of 65 bytes.
C10_DerSignatureInEverySlot ==
    (Succeeded /\ SingleScriptType) =>
        \A k \in DOMAIN tx.inputs :
            LET slot == tx.signatures[k][OwnSlot(tx.inputs[k])]
                sig == frame.signatures[k]
            IN /\ slot # NoSig
               /\ Len(slot) = 2 * Len(sig)
               /\ \A b \in DOMAIN sig : 16 * slot[2 * b - 1] + slot[2 * b] = sig[b]
               /\ slot[1] = 3 /\ slot[2] = 0
               /\ Len(sig) # 65
               /\ \E shape \in SigShapes :
                    Tail(sig) = Tail(DeviceSignature(shape, OwnPath(tx.inputs[k]),
                                                     tx.inputs[k].script))

C10_Witness ==
    /\ Succeeded
    /\ SingleScriptType
    /\ Len(tx.inputs) = MaxInputs
    /\ \E k \in DOMAIN tx.inputs :
         Len(tx.signatures[k][OwnSlot(tx.inputs[k])]) = 2 * 71

\* C11: sign_message turns a DER signature of the device whose r and s are
\* 32 or 33 bytes long into 65 bytes: the marker 27 + 4 + (first byte & 1),
\* then the 32 value bytes of r and the 32 value bytes of s, the pad byte of
\* a 33-byte r or s dropped.
C11_CompactIs65Bytes ==
    (pc = "done" /\ outcome.exit = "success") =>
        LET signature == frame.signature
            rLength == signature[4]
            sLength == Len(signature) - 6 - rLength
            result == frame.result
        IN (rLength \in {32, 33} /\ sLength \in {32, 33}) =>
             /\ Len(result) = 65
             /\ result[1] = 27 + 4 + (signature[1] % 2)
             /\ SubSeq(result, 2, 33) = SubSeq(signature, rLength - 27, 4 + rLength)
             /\ SubSeq(result, 34, 65)
                    = SubSeq(signature, Len(signature) - 31, Len(signature))

C11_Witness ==
    /\ pc = "done" /\ outcome.exit = "success"
    /\ frame.signature[1] = 49
    /\ frame.signature[4] = 33
    /\ Len(frame.signature) = 6 + 33 + 32
    /\ Len(frame.result) = 65

\* The outputs have been recognized: the call got past line 386.
OutputsRecognized == frame.txOutput # <<>>
OwnOutputs == {k \in DOMAIN tx.outputs : tx.outputs[k].address \in {"own1", "own2"}}
OwnRecord(address) == IF address = "own1" THEN <<1, 3>> ELSE <<1, 4>>
NoP2shInput == \A k \in DOMAIN tx.inputs : tx.inputs[k].type # "p2sh"
Prompts == CallsOf("handler", "get_auth")

C13_AtMostOneChange ==
    OutputsRecognized =>
        \/ frame.changePath = <<>> /\ frame.changeAmount = -1
        \/ \E k \in OwnOutputs :
              /\ frame.changePath = OwnRecord(tx.outputs[k].address)
              /\ frame.changeAmount = tx.outputs[k].amount
              /\ \A j \in OwnOutputs : j <= k
              /\ \A j \in DOMAIN tx.outputs \ OwnOutputs :
                    frame.changeAmount # tx.outputs[j].amount

C13_Witness ==
    /\ OutputsRecognized
    /\ Len(tx.outputs) = 2
    /\ Cardinality(OwnOutputs) = 2
    /\ frame.changePath # <<>>

\* Byte i (1 the least significant) of an amount below 2^24, in 8 bytes.
AmountByte(amount, i) == IF i > 3 THEN 0 ELSE (amount \div 256 ^ (i - 1)) % 256

\* C14: the output section is a function of the outputs in their order: the
\* count, then for each output, in output order, 34 bytes: the amount in 8
\* bytes least significant first, the length of the script (25) and the 25
\* bytes of the script. So the same outputs always give the same bytes.
C14_OutputSectionLayout ==
    OutputsRecognized =>
        LET section == frame.txOutput
            n == Len(tx.outputs)
        IN /\ Len(section) = 1 + 34 * n
           /\ section[1] = n
           /\ \A k \in 1..n :
                LET at == 1 + 34 * (k - 1)
                IN /\ \A i \in 1..8 :
                        section[at + i] = AmountByte(tx.outputs[k].amount, i)
                   /\ section[at + 9] = 25
                   /\ SubSeq(section, at + 10, at + 34)
                        = pay_script(tx.outputs[k].address)

C14_Witness ==
    /\ OutputsRecognized
    /\ Len(tx.outputs) = 2
    /\ tx.outputs[1].amount = 70000
    /\ tx.outputs[2].amount = 258

IsDeviceCall(i, op) == log[i].to = "device" /\ log[i].op = op

\* C15 as claimed: the output section is supplied to the device in the
\* round-trip of every input: each untrustedHashSign has, since the
\* untrustedHashSign before it, a call that carries the section.
C15_Original ==
    \A i \in DOMAIN log :
        IsDeviceCall(i, "untrustedHashSign") =>
            \E j \in 1..(i - 1) :
                /\ IsDeviceCall(j, "finalizeInputFull")
                /\ log[j].args = frame.txOutput
                /\ \A m \in (j + 1)..(i - 1) : ~IsDeviceCall(m, "untrustedHashSign")

\* C15: the output section built at lines 366-373 is supplied to the device
\* once in a session, by the one finalizeInputFull, which comes before every
\* untrustedHashSign; the calls of the per-input round-trips carry the trusted
\* input, the redeem script, the path and the PIN, and no output section; no
\* call carries another section.
C15_OutputSectionSentOnce ==
    LET finals == {i \in DOMAIN log : IsDeviceCall(i, "finalizeInputFull")}
    IN /\ Cardinality(finals) <= 1
       /\ \A j \in finals : OutputsRecognized /\ log[j].args = frame.txOutput
       /\ \A i \in DOMAIN log :
            /\ IsDeviceCall(i, "untrustedHashSign") =>
                  /\ \E j \in finals : j < i /\ log[j].sw = 0
                  /\ DOMAIN log[i].args = {"path", "pin"}
            /\ IsDeviceCall(i, "startUntrustedTransaction") =>
                  DOMAIN log[i].args = {"newTransaction", "inputIndex", "chipInputs",
                                        "redeemScript", "cashAddr"}

C15_Witness ==
    /\ Succeeded
    /\ Len(tx.inputs) = MaxInputs
    /\ Len(CallsOf("device", "finalizeInputFull")) = 1
    /\ Len(CallsOf("device", "untrustedHashSign")) = MaxInputs

\* C16: every untrustedHashSign comes right after the
\* startUntrustedTransaction of the same input: the k-th untrustedHashSign of
\* a session has as the call just before it, device or handler, a
\* startUntrustedTransaction that did not fail and that carries the redeem
\* script and the trusted input of input k alone, and it signs with the path
\* of input k.
C16_StartRightBeforeSign ==
    \A i \in DOMAIN log :
        IsDeviceCall(i, "untrustedHashSign") =>
            LET k == Cardinality({j \in 1..i : IsDeviceCall(j, "untrustedHashSign")})
            IN /\ i > 1
               /\ IsDeviceCall(i - 1, "startUntrustedTransaction")
               /\ log[i - 1].sw = 0
               /\ ~log[i - 1].args.newTransaction
               /\ k <= Len(tx.inputs)
               /\ log[i - 1].args.redeemScript = tx.inputs[k].script
               /\ log[i - 1].args.chipInputs
                      = <<[value |-> tx.inputs[k].prevout, witness |-> TRUE]>>
               /\ log[i].args.path = OwnPath(tx.inputs[k])

C16_Witness ==
    /\ Len(tx.inputs) = MaxInputs
    /\ Len(CallsOf("device", "untrustedHashSign")) = MaxInputs
    /\ log[Len(log)].op = "untrustedHashSign"
    /\ log[Len(log)].sw = 0

FirstStarts ==
    SelectSeq(log, LAMBDA e : e.to = "device" /\ e.op = "startUntrustedTransaction"
                                /\ e.args.newTransaction)

NoInterleaving ==
    \A i, j, k \in DOMAIN wire :
        (i < j /\ j < k /\ wire[i] = wire[k]) => wire[j] = wire[i]

\* C18 as claimed: the round-trips of two signing calls do not interleave,
\* also when the calls run at the same time.
C18_Original == NoInterleaving

\* C18: devmgr.hid_lock is held by one thread at a time and only while the
\* client is looked up, never across a round-trip; the round-trips of two
\* signing calls do not interleave when the calls themselves do not overlap,
\* that is when the caller starts one after the other has returned.
C18_SerializedByCaller ==
    /\ \A t \in Threads : hid_lock = t <=> threads[t].pc = "client_for_keystore"
    /\ \A t, u \in Threads :
         (threads[t].pc = "client_for_keystore" /\ threads[u].pc = "client_for_keystore")
             => t = u
    /\ (\A t \in Threads : ~threads[t].overlapped) => NoInterleaving

C18_Witness ==
    /\ \A t \in Threads : threads[t].pc = "done" /\ ~threads[t].overlapped
    /\ Len(wire) = 2
    /\ \E t \in Threads : threads[t].call = "sign_transaction"
    /\ \E t \in Threads : threads[t].call = "sign_message"

Failed(i) == log[i].to = "device" /\ log[i].sw # 0

\* The statuses the preflight takes as answers: 0x6985 from getOperationMode
\* (line 155), 0x6d00 from the first getVerifyPinRemainingAttempts (line 115),
\* 0x6982 and 0x6A80 from the probe of the PIN status (lines 124-127).
TakenAsAnswer(i) ==
    \/ log[i].op = "getOperationMode" /\ log[i].sw = SW_CANCELLED
    \/ /\ log[i].op = "getVerifyPinRemainingAttempts" /\ log[i].sw = SW_NOT_SUPPORTED
       /\ \A j \in 1..(i - 1) : ~IsDeviceCall(j, "getVerifyPinRemainingAttempts")
    \/ log[i].op = "exchange" /\ log[i].sw \in {SW_LOCKED, SW_INVALID_DATA}

\* C19 as claimed: after the first device round-trip of a call that fails, no
\* further device call is made and the call does not end in success.
C19_Original ==
    \A i \in DOMAIN log :
        Failed(i) => /\ \A j \in (i + 1)..Len(log) : log[j].to # "device"
                     /\ ~Succeeded

\* C19: no round-trip that failed is made again in the call; and after a
\* round-trip that fails with a status the preflight does not take as an
\* answer, which every failure of enableAlternate2fa,
\* startUntrustedTransaction, finalizeInputFull and untrustedHashSign is, the
\* call is over without success and no further device call is made.
C19_NoRetry ==
    \A i \in DOMAIN log :
        Failed(i) =>
            /\ \A j \in (i + 1)..Len(log) :
                 log[j].to = "device" => log[j].op # log[i].op
            /\ log[i].op \in SigningRoundTrips => ~TakenAsAnswer(i)
            /\ ~TakenAsAnswer(i) =>
                 /\ \A j \in (i + 1)..Len(log) : log[j].to # "device"
                 /\ pc = "done"
                 /\ outcome.exit # "success"
                 /\ TxUnchanged

C19_Witness ==
    /\ pc = "done"
    /\ Len(CallsOf("device", "untrustedHashSign")) = MaxInputs
    /\ log[Len(log) - 1].op = "untrustedHashSign"
    /\ log[Len(log) - 1].sw = SW_TECHNICAL
    /\ \E i \in DOMAIN log : Failed(i) /\ log[i].op = "exchange"

FailedSigning(i) == Failed(i) /\ log[i].op \in SigningRoundTrips

\* C20 as claimed: whatever error status a signing round-trip fails with, the
\* call ends with an error raised, never with a plain return.
C20_Original ==
    \A i \in DOMAIN log : FailedSigning(i) => pc = "done" /\ outcome.kind = "raise"

\* C20: a signing round-trip that fails with status 0x6985 (cancelled by the
\* user on the device) ends the call like a cancellation at the prompt, only
\* without a message: it returns nothing, raises nothing, shows no error,
\* keeps the client and leaves the transaction as it was. With any other
\* status the call raises the error.
C20_DeviceCancellation ==
    \A i \in DOMAIN log :
        FailedSigning(i) =>
            /\ pc = "done"
            /\ TxUnchanged
            /\ log[Len(log)] = Finished
            /\ CallsOf("handler", "show_error") = <<>>
            /\ IF log[i].sw = SW_CANCELLED
               THEN ReturnedNothing /\ ks.client # None
               ELSE outcome.kind = "raise" /\ outcome.exc = ExceptionFrom(log[i].sw)

C20_Witness ==
    /\ pc = "done"
    /\ ReturnedNothing
    /\ \E i \in DOMAIN log : log[i].op = "get_auth" /\ log[i].result = "pin"
    /\ \E i \in DOMAIN log :
         FailedSigning(i) /\ log[i].op = "untrustedHashSign" /\ log[i].sw = SW_CANCELLED

OutsideBody == pc \in {"caller", "idle", "msg_idle", "addr_idle", "done"}

\* C22: once sign_transaction, sign_message or show_address has returned or
\* raised, on whatever path, ks.signing is False; while the body of one of
\* them runs, the preflight of get_client() included, ks.signing is True.
C22_SigningReleased ==
    /\ OutsideBody => ~ks.signing
    /\ ~OutsideBody => ks.signing
    /\ pc = "done" => outcome.kind \in {"return", "raise"}

C22_Witness ==
    /\ pc = "done"
    /\ outcome.kind = "raise"
    /\ "address" \in DOMAIN entry
    /\ ~ks.signing
\* A sign_transaction call is under way or has ended, and has ended in success.
InSignTransaction == "raw" \in DOMAIN entry /\ pc # "caller"
SignedTransaction == InSignTransaction /\ Succeeded

\* The slots of the transaction are those of entry but for the signing slot
\* of every input, which holds the signature collected for that input.
SplicedInPlace ==
    \A k \in DOMAIN tx.inputs :
        /\ DOMAIN tx.signatures[k] = DOMAIN entry.signatures[k]
        /\ \A j \in DOMAIN tx.signatures[k] :
             tx.signatures[k][j] = IF j = OwnSlot(tx.inputs[k])
                                   THEN bh2u(frame.signatures[k])
                                   ELSE entry.signatures[k][j]

\* The slot index kept for every collected input is the position of the
\* wallet's key among the input's sorted public keys, and the inputs were
\* collected in the order of the transaction.
SlotsAsCollected ==
    /\ Len(frame.inputs) \in {0, Len(tx.inputs)}
    /\ \A k \in DOMAIN frame.inputs :
         /\ frame.inputs[k].signingPos = OwnSlot(tx.inputs[k])
         /\ frame.inputs[k].prevout = tx.inputs[k].prevout

\* C23: from input collection to the end of the call the slot index kept for
\* input i is the position of the wallet's key in the sorted public keys of
\* input i; on success the signature obtained for input i is in that slot and
\* every other slot is as at entry; no step of the call changes the inputs,
\* the outputs or their order.
C23_SignatureInItsSlot ==
    /\ [](InSignTransaction => SlotsAsCollected)
    /\ [](SignedTransaction => SplicedInPlace)
    /\ [][(InSignTransaction /\ pc' # "caller") =>
             (tx'.inputs = tx.inputs /\ tx'.outputs = tx.outputs)]_vars

C23_Witness ==
    /\ SignedTransaction
    /\ Len(tx.inputs) = MaxInputs
    /\ \E k \in DOMAIN tx.inputs :
         /\ OwnSlot(tx.inputs[k]) = 2
         /\ tx.signatures[k][1] = CosignerSig
         /\ tx.signatures[k][2] = bh2u(frame.signatures[k])
\* The steps of perform_hw1_preflight and the device calls only it makes;
\* its getWalletPublicKey is the one logged without arguments.
PreflightSteps ==
    {"getFirmwareVersion", "getOperationMode", "has_detached_pin_support",
     "is_pin_validated", "password_dialog", "verifyPin", "getWalletPublicKey"}
IsPreflightCall(e) ==
    /\ e.to = "device"
    /\ \/ e.op \in {"getFirmwareVersion", "getOperationMode",
                     "getVerifyPinRemainingAttempts", "exchange", "verifyPin"}
       \/ e.op = "getWalletPublicKey" /\ DOMAIN e.args = {}

\* C24: once the preflight has completed on the client, no step of a later
\* checkDevice is taken and no preflight call reaches the device, in whatever
\* method get_client() is called, and preflightDone and the three capability
\* flags keep their values.
C24_PreflightMemoized ==
    /\ [](pc \in PreflightSteps => ~client.preflightDone)
    /\ [][client.preflightDone =>
             /\ client' = client
             /\ \A i \in (Len(log) + 1)..Len(log') : ~IsPreflightCall(log'[i])]_vars

C24_Witness ==
    /\ client.preflightDone
    /\ pc = "done"
    /\ "address" \in DOMAIN entry
    /\ DeviceCalls # <<>>
    /\ \A i \in DOMAIN log : ~IsPreflightCall(log[i])
\* A version as one number, most significant part first.
VersionNumber(v) ==
    (v[1] * (MaxVersionPart + 1) + v[2]) * (MaxVersionPart + 1) + v[3]

\* C25: for every firmware version, bitcoinCashSupported is set exactly when
\* the version is at least 1.1.8 and cashaddrFWSupported exactly when it is
\* at least 1.2.5, parts compared most significant first, so the second
\* implies the first; supports_cashaddr() is true exactly when the firmware
\* flag is set and the library knows the cashAddr argument.
C25_CapabilityThresholds ==
    (pc \in {"library_flag", "negotiated"}) =>
        /\ client.bitcoinCashSupported
              <=> VersionNumber(entry.firmware) >= VersionNumber(<<1, 1, 8>>)
        /\ client.cashaddrFWSupported
              <=> VersionNumber(entry.firmware) >= VersionNumber(<<1, 2, 5>>)
        /\ client.cashaddrFWSupported => client.bitcoinCashSupported
        /\ pc = "negotiated" =>
              (supports_cashaddr
                  <=> /\ VersionNumber(entry.firmware) >= VersionNumber(<<1, 2, 5>>)
                      /\ entry.cashAddrKnown)

C25_Witness ==
    /\ pc = "negotiated"
    /\ entry.firmware = <<2, 0, 0>>
    /\ supports_cashaddr
LockedAt(i) == log[i].to = "device" /\ log[i].sw = SW_LOCKED

\* C26 as claimed: a device round-trip of sign_transaction that answers
\* status 0x6982 makes the call fail in the preflight, before any signing
\* round-trip and with no further device call.
C26_Original ==
    InSignTransaction =>
        \A i \in DOMAIN log :
            LockedAt(i) =>
                /\ pc = "done"
                /\ outcome.kind = "raise"
                /\ NoSigningRoundTrip
                /\ \A j \in (i + 1)..Len(log) : log[j].to # "device"

\* C26: status 0x6982 from a preflight round-trip other than the PIN probe
\* makes sign_transaction raise the BTChipException with that status out of
\* the preflight: preflightDone stays unset, no signing round-trip and no
\* further device call is made, the transaction is as it was. Status 0x6982
\* from the PIN probe (is_pin_validated) is an answer: the preflight goes on
\* to getVerifyPinRemainingAttempts and the PIN dialog.
C26_LockedStatus ==
    InSignTransaction =>
        \A i \in DOMAIN log :
            (LockedAt(i) /\ IsPreflightCall(log[i])) =>
                IF log[i].op = "exchange"
                THEN i < Len(log) =>
                        /\ IsDeviceCall(i + 1, "getVerifyPinRemainingAttempts")
                        /\ i + 1 < Len(log) => log[i + 2] = HandlerCall("get_word", <<>>)
                ELSE /\ pc = "done"
                     /\ outcome.kind = "raise"
                     /\ outcome.exc = BTChipException(SW_LOCKED)
                     /\ ~client.preflightDone
                     /\ NoSigningRoundTrip
                     /\ TxUnchanged
                     /\ i = Len(log)

C26_Witness ==
    /\ SignedTransaction
    /\ \E i \in DOMAIN log : LockedAt(i) /\ log[i].op = "exchange"
    /\ CallsOf("device", "verifyPin") # <<>>
Callbacks == {"cb_done", "accept", "cb_success", "cb_error", "on_error"}

\* C27: every callback of every task (cb_done, cb_success, cb_error or the
\* thread's on_error) runs in the thread of the parent and every task in the
\* worker, however add, stop and the worker's loop interleave; no doneSig is
\* delivered before its task has run.
C27_CallbacksInParent ==
    \A i \in DOMAIN calls :
        IF calls[i].what \in Callbacks
        THEN /\ calls[i].on = "parent"
             /\ \E j \in 1..(i - 1) :
                  calls[j].what = "task" /\ calls[j].task = calls[i].task
        ELSE calls[i].on = "worker"

C27_Witness ==
    /\ taskThread.pc = "finished"
    /\ added.stopped
    /\ \E i, j \in DOMAIN calls :
         /\ calls[i].what = "cb_success" /\ calls[i].on = "parent"
         /\ calls[j].what \in {"cb_error", "on_error"} /\ calls[j].on = "parent"
ConfirmShownAt(i) ==
    log[i].to = "handler" /\ log[i].op = "show_message" /\ log[i].args = MSG_CONFIRM
FinishedAt(i) == log[i].to = "handler" /\ log[i].op = "finished"

\* C28: when a sign_transaction call that showed the message 'Confirm
\* Transaction on your Ledger device...' has returned or raised, on whatever
\* path, handler.finished() was called after the message, and it is the last
\* call the handler or the device got.
C28_PromptReleased ==
    (InSignTransaction /\ pc = "done") =>
        \A i \in DOMAIN log :
            ConfirmShownAt(i) =>
                /\ \E j \in (i + 1)..Len(log) : FinishedAt(j)
                /\ FinishedAt(Len(log))

C28_Witness ==
    /\ InSignTransaction
    /\ pc = "done"
    /\ outcome.kind = "raise"
    /\ \E i \in DOMAIN log : ConfirmShownAt(i)
    /\ Len(CallsOf("handler", "get_auth")) = 1
    /\ Len(CallsOf("handler", "finished")) = 2
\* Thread t was in give_error and has left it.
GaveError(t) == threads[t].raised # None

\* C29: a give_error call never goes back to the body: it leaves through the
\* exception it raises, which carries the message it was called with; called
\* with ks.signing set it clears the flag and does not show the error, called
\* with the flag not set it shows the error, once; it sets the client of the
\* keystore to None when clear_client is true and leaves it alone otherwise.
C29_GiveErrorRaises ==
    /\ [](\A t \in Threads :
            /\ GaveError(t) =>
                  /\ threads[t].pc \in {"finally", "done"}
                  /\ threads[t].raised = threads[t].error.message
            /\ threads[t].shown => GaveError(t))
    /\ [][\A t \in Threads :
            (threads[t].pc = "give_error" /\ threads'[t].pc # "give_error") =>
                /\ GaveError(t)'
                /\ ~ks'.signing
                /\ threads'[t].shown <=> ~ks.signing
                /\ ks'.client = IF threads[t].error.clear_client THEN None
                                                                 ELSE ks.client]_vars

C29_Witness ==
    \E t \in Threads :
        /\ threads[t].shown
        /\ threads[t].raised = MSG_UNSIGNABLE
        /\ ks.client # None
StartCalls == {i \in DOMAIN log : IsDeviceCall(i, "startUntrustedTransaction")}

\* C30: all startUntrustedTransaction calls of a sign_transaction call, the
\* first one and the one of every input, pass the same cashAddr, and it is
\* True exactly when the interface shows CashAddr addresses and the client's
\* cashaddrFWSupported and cashaddrSWSupported are both set.
C30_OneAddressMode ==
    /\ \A i, j \in StartCalls : log[i].args.cashAddr = log[j].args.cashAddr
    /\ \A i \in StartCalls :
         log[i].args.cashAddr
             <=> /\ FMT_UI = "cashaddr"
                 /\ client.cashaddrFWSupported
                 /\ client.cashaddrSWSupported

C30_Witness ==
    /\ SignedTransaction
    /\ Cardinality(StartCalls) = 1 + MaxInputs
    /\ \A i \in StartCalls : log[i].args.cashAddr

\* The round-trips of the try of sign_message, lines 280-288.
MessageRoundTrips == {"signMessagePrepare", "signMessageSign"}
InSignMessage == "message" \in DOMAIN entry
GateCancelledAt(i) ==
    log[i].to = "handler" /\ log[i].op = "get_auth" /\ log[i].result = ""
DeviceCancelledAt(i) ==
    /\ log[i].to = "device"
    /\ log[i].op \in MessageRoundTrips
    /\ log[i].sw = SW_CANCELLED
SignedAt(i) ==
    log[i].to = "device" /\ log[i].op = "signMessageSign" /\ log[i].sw = 0

\* C31: a sign_message call in which the handler gave no PIN at the prompt,
\* or in which signMessagePrepare or signMessageSign raised status 0x6985,
\* returns the empty byte string and does not raise; handler.finished() is
\* the last call made; after a prompt that gave no PIN signMessageSign is
\* not called.  The signature is converted only if signMessageSign returned
\* one.
C31_CancelledMessage ==
    (InSignMessage /\ pc = "done") =>
        /\ \A i \in DOMAIN log :
              (GateCancelledAt(i) \/ DeviceCancelledAt(i)) =>
                  /\ outcome.kind = "return"
                  /\ frame.result = <<>>
                  /\ FinishedAt(Len(log))
        /\ \A i \in DOMAIN log :
              GateCancelledAt(i) => \A j \in i..Len(log) : log[j].op # "signMessageSign"
        /\ IF \E i \in DOMAIN log : SignedAt(i)
           THEN /\ frame.signature \in MessageSignatures
                /\ frame.result = CompactSignature(frame.signature)
                /\ outcome.exit = "success"
           ELSE /\ outcome.exit # "success"
                /\ "result" \in DOMAIN frame => frame.result = <<>>

C31_Witness ==
    /\ InSignMessage
    /\ pc = "done"
    /\ \E i \in DOMAIN log : GateCancelledAt(i)
    /\ outcome.kind = "return"
    /\ frame.result = <<>>
    /\ Len(CallsOf("device", "signMessagePrepare")) = 1

\* Where a call of a decorated method starts.
CallEntries == {"idle", "msg_idle", "addr_idle"}

\* C32: preflightDone turns True only in the step that ends the preflight
\* without an exception; a preflight that raises, at whatever step, leaves
\* it False; and a call that reaches get_client() while it is False starts
\* the preflight at its first step.
C32_FailedPreflightNotLatched ==
    /\ [][(~client.preflightDone /\ client'.preflightDone) =>
             (pc = "getWalletPublicKey" /\ pc' = AfterPreflight /\ outcome' = Running)]_vars
    /\ [][(pc \in PreflightSteps /\ pc' = "done") =>
             (outcome'.kind = "raise" /\ ~client'.preflightDone)]_vars
    /\ [][(pc \in CallEntries /\ ~client.preflightDone /\ pc' # "done") =>
             pc' = "getFirmwareVersion"]_vars

C32_Witness ==
    /\ pc = "done"
    /\ outcome.kind = "raise"
    /\ outcome.exc.message = MSG_ABORTED
    /\ ~client.preflightDone
    /\ CallsOf("handler", "get_word") # <<>>
    /\ CallsOf("device", "verifyPin") = <<>>

\* The addresses of the outputs of the transaction that are not the wallet's.
PaymentAddresses ==
    { tx.outputs[k].address : k \in DOMAIN tx.outputs } \ DOMAIN output_info

\* C33 as claimed: whenever sign_transaction calls handler.get_auth, the
\* address it passes is the address of an output of the transaction that is
\* not the wallet's, whatever the inputs and the outputs are.
C33_Original ==
    \A i \in DOMAIN Prompts : Prompts[i].args \in PaymentAddresses

\* The prompt of a transaction with a p2sh input and a payment output is
\* passed no address.
C33_Witness ==
    /\ ~NoP2shInput
    /\ PaymentAddresses # {}
    /\ Prompts # <<>>
    /\ Prompts[1].args = None

\* The tasks the worker has run, in the order it ran them.
Ran == SelectSeq(calls, LAMBDA c : c.what = "task")
\* The tasks in the queue behind a stop sentinel, and the tasks added before
\* stop() was called.
QueuedAfterStop ==
    { tasks[i].id : i \in { i \in DOMAIN tasks :
          taskThread.pc = "finished" \/ \E j \in 1..(i - 1) : tasks[j].id = 0 } } \ {0}
AddedBeforeStop == (1..added.count) \ QueuedAfterStop

\* C34: the tasks the worker has run are the first tasks added, each once,
\* in the order of add(); while one runs, all before it have ended; and
\* every task added before stop() is run in the end, whether the tasks
\* before it returned or raised.
C34_TasksRunOnceInOrder ==
    /\ [](\A i \in DOMAIN Ran : Ran[i].task = i)
    /\ [](taskThread.pc = "task" => Len(Ran) = taskThread.task.id - 1)
    /\ \A k \in 1..MaxTasks :
          (k \in AddedBeforeStop) ~> (\E i \in DOMAIN Ran : Ran[i].task = k)

C34_Witness ==
    /\ taskThread.pc = "finished"
    /\ Len(Ran) = 2
    /\ Ran[1].arg = "exc_info"
    /\ Ran[2].arg = "result"

\* What was called back for task k, in order, and the doneSig emissions of
\* task k still queued.
CalledBack(k) == SelectSeq(calls, LAMBDA c : c.task = k /\ c.what # "task")
Pending(k) == SelectSeq(events, LAMBDA e : e.task = k)
Delivered(k) == k \in DOMAIN Ran /\ Pending(k) = <<>>
ResultCallbacks == {"cb_success", "cb_error", "on_error"}

\* The calls on_done has to make for task k, which add() was given the
\* callbacks added.given[k] for and which ended as Ran[k].arg says.
DoneCall(k) ==
    IF added.given[k].on_done # None
    THEN <<[what |-> added.given[k].on_done, task |-> k, on |-> Affinity, arg |-> ""]>>
    ELSE <<>>
ResultCallback(k) ==
    IF Ran[k].arg = "result" THEN added.given[k].on_success
    ELSE IF added.given[k].on_error # None THEN added.given[k].on_error
    ELSE taskThread.on_error
ResultCall(k) ==
    IF ResultCallback(k) # None
    THEN <<[what |-> ResultCallback(k), task |-> k, on |-> Affinity, arg |-> Ran[k].arg]>>
    ELSE <<>>

\* C35 as claimed: for every task that was executed and whose completion was
\* delivered, exactly one of cb_success and cb_error (the task's own or the
\* thread's on_error) was called.
C35_Original ==
    \A k \in DOMAIN Ran :
        Delivered(k) =>
            Cardinality({ i \in DOMAIN CalledBack(k) :
                            CalledBack(k)[i].what \in ResultCallbacks }) = 1

\* C35: a task that was executed has one doneSig emission, queued or
\* delivered, and the emission is delivered in the end.  Delivered, it calls
\* cb_done if add() was given one, and then, if there is such a callback,
\* cb_success with the result when the task returned, or when it raised
\* cb_error with the exception info, which is the on_error given to add()
\* or else the on_error of the thread; nothing else is called for the task.
C35_OneCompletion ==
    /\ [](\A k \in DOMAIN Ran :
            IF Delivered(k)
            THEN CalledBack(k) = DoneCall(k) \o ResultCall(k)
            ELSE Len(Pending(k)) = 1 /\ CalledBack(k) = <<>>)
    /\ \A k \in 1..MaxTasks : (k \in DOMAIN Ran) ~> Delivered(k)

C35_Witness ==
    /\ taskThread.on_error = "on_error"
    /\ \E k \in DOMAIN Ran :
         /\ Delivered(k)
         /\ Ran[k].arg = "exc_info"
         /\ added.given[k].on_error = None
         /\ Len(CalledBack(k)) = 2
         /\ CalledBack(k)[2].what = "on_error"

Stopped == taskThread.pc = "finished"

\* C36: once stop() has been called the worker's loop ends, and when it has
\* ended every task added before stop() has been run; a task added after
\* stop() is never run.  The task of a WaitingDialog delivered, returned or
\* raised, stop() has been called, so the dialog's thread ends as well.
C36_StopTerminates ==
    /\ added.stopped ~> Stopped
    /\ [](Stopped => \A k \in AddedBeforeStop : k \in DOMAIN Ran)
    /\ [](\A i \in DOMAIN Ran : Ran[i].task \in AddedBeforeStop)
    /\ []((OfWaitingDialog /\ Delivered(1)) => added.stopped)
    /\ OfWaitingDialog ~> (Stopped /\ Len(Ran) = 1)

C36_Witness ==
    /\ OfWaitingDialog
    /\ Stopped
    /\ Ran[1].arg = "exc_info"
    /\ Delivered(1)
    /\ tasks = <<>>

\* The entries of the announcement of this run whose address is a signing
\* key and whose signature verifies over the version string.
TrustedValid ==
    { i \in DOMAIN updateCheck.answer.signatures :
        LET e == updateCheck.answer.signatures[i]
        IN /\ e.address \in VERSION_ANNOUNCEMENT_SIGNING_KEYS
           /\ e.sig.b64
           /\ e.sig.by = e.address
           /\ e.sig.over = updateCheck.answer.version }
Emitted(signal) ==
    \E i \in DOMAIN updateCheck.emitted : updateCheck.emitted[i].signal = signal

\* C37: a run of UpdateCheckThread emits no signal twice and not both, and
\* one when it has ended; checked is emitted only for an announcement with a
\* signature of a signing key that verifies over its version string, and an
\* announcement without one, whatever other addresses signed, ends in
\* failed.
C37_OneSignalTrustedOnly ==
    /\ Len(updateCheck.emitted) <= 1
    /\ updateCheck.pc = "finished" => Len(updateCheck.emitted) = 1
    /\ Emitted("checked") => (updateCheck.answer.fetched /\ TrustedValid # {})
    /\ (updateCheck.pc = "finished" /\ TrustedValid = {}) => Emitted("failed")

C37_Witness ==
    /\ updateCheck.pc = "finished"
    /\ Emitted("failed")
    /\ \E i \in DOMAIN updateCheck.answer.signatures :
         LET e == updateCheck.answer.signatures[i]
         IN /\ e.address = "unknown1"
            /\ e.sig.by = "unknown1"
            /\ e.sig.over = updateCheck.answer.version

\* The threads inside the body of a decorated method.
InProgress == {u \in Threads : threads[u].pc \notin {"idle", "finally", "done"}}

\* C38 as claimed: while the call of at least one thread is in progress
\* ks.signing is True, and a give_error of a call that ran while another did
\* does not show the error.
C38_Original ==
    /\ InProgress # {} => ks.signing
    /\ \A t \in Threads : threads[t].raised # None => ~threads[t].shown

\* The call of one thread has returned, the call of the other, which started
\* while the first was under way, then failed, and give_error showed the
\* error.
C38_Witness ==
    /\ threads["t1"].pc = "done"
    /\ threads["t1"].raised = None
    /\ threads["t2"].overlapped
    /\ threads["t2"].raised # None
    /\ threads["t2"].shown

====
